---- MODULE Spec2Model ----
(***************************************************************************)
(* The chunked inference pipeline of analyzer.py: chunk_frames,            *)
(* get_cache_path, analyze_chunk (cache check, retry loop, sanitising,     *)
(* cache write) and run_pipeline (the per-chunk loop, memory accumulation, *)
(* summary and saved output).                                              *)
(***************************************************************************)
EXTENDS Integers, Sequences, FiniteSets, TLC

(***************************************************************************)
(* Bounds of the model.                                                    *)
(***************************************************************************)
MaxFrames == 5        \* frames in the frames directory: 0..MaxFrames
MaxRuns == 2          \* run_pipeline invocations in one behaviour
MaxCap == 4           \* largest max_chunks argument tried
RetryInSecs == 10     \* whole seconds of the "retry in N" of a rate-limit message
RetryInTenths == 3    \* tenths of a second of a "retry in N.Ds" message
MaxSeqLen == 4        \* chunk_frames alone: longest input sequence
MaxChunkSize == 3     \* chunk_frames alone: largest chunk size
NumFrameIds == 3      \* chunk_frames alone: distinct frame references
LongFrames == 9       \* frames of the single long run: 9..LongFrames
MaxMemLen == 22       \* the prompt alone: longest landmark list
MaxOpenLen == 3        \* tokens of a response before its body
MaxBodyLen == 4        \* tokens of the body of a response
MaxCloseLen == 2       \* tokens of a response after its body
MaxTimeline == 7       \* entries of a timeline given to compile_summary
MaxTextLen == 7       \* the decoding alone: longest cleaned text, in tokens

(***************************************************************************)
(* Program constants.                                                      *)
(***************************************************************************)
FRAMES_PER_CHUNK == 4
FRAME_INTERVAL_SEC == 2
REQUEST_DELAY_SECONDS == 8
max_retries == 5
DefaultRetryDelay == 45
RetryDelayBuffer == 5

Modes == {"naive", "structured", "memory"}

Min(a, b) == IF a < b THEN a ELSE b
Max(a, b) == IF a > b THEN a ELSE b

(***************************************************************************)
(* Python's s[a:b] for 0 <= a <= b (0-based, half-open, clamped).          *)
(***************************************************************************)
Slice(s, a, b) == SubSeq(s, a + 1, Min(b, Len(s)))

(***************************************************************************)
(* Python's range(start, stop, step) for step > 0, as a sequence.          *)
(***************************************************************************)
RECURSIVE range(_, _, _)
range(start, stop, step) ==
    IF start < stop THEN <<start>> \o range(start + step, stop, step) ELSE <<>>

chunk_frames_FullOnly(fr, chunk_size) ==
    LET starts == range(0, Len(fr) - chunk_size + 1, chunk_size)
    IN  [j \in 1..Len(starts) |-> Slice(fr, starts[j], starts[j] + chunk_size)]

chunk_frames(fr, chunk_size) ==
    LET starts == range(0, Len(fr), chunk_size)
    IN  [j \in 1..Len(starts) |-> Slice(fr, starts[j], starts[j] + chunk_size)]

(***************************************************************************)
(* load_frames: the sorted frame paths of a directory holding n frames.    *)
(***************************************************************************)
load_frames(n) == [k \in 1..n |-> k]

(***************************************************************************)
(* A cache file name chunk_<idx>_<mode>.json, as the pair it is built from. *)
(***************************************************************************)
get_cache_path(chunk_idx, m) == <<chunk_idx, m>>

ChunkIdxs == 0..(Max(MaxFrames, LongFrames) \div FRAMES_PER_CHUNK)
CachePaths == ChunkIdxs \X Modes

(***************************************************************************)
(* Chunk results.  A key that a dict does not have is NoKey; the           *)
(* spatial_memory value is absent, a list of dicts, or a list of strings.  *)
(***************************************************************************)
NoKey == "<no key>"
NoStamp == <<-1, -1>>
NoSM == [shape |-> "absent", items |-> <<>>]

BlankResult ==
    [timestamp_range |-> NoStamp, raw_response |-> NoKey, error |-> NoKey,
     parse_error |-> NoKey, activity |-> NoKey, productivity |-> NoKey,
     confidence |-> NoKey, spatial_memory |-> NoSM]

TimestampRange_ChunkLen(chunk_idx, nframes) ==
    LET start_sec == chunk_idx * nframes * FRAME_INTERVAL_SEC
    IN  <<start_sec, start_sec + nframes * FRAME_INTERVAL_SEC>>

TimestampRange(chunk_idx, nframes) ==
    LET start_sec == chunk_idx * FRAMES_PER_CHUNK * FRAME_INTERVAL_SEC
    IN  <<start_sec, start_sec + nframes * FRAME_INTERVAL_SEC>>

(***************************************************************************)
(* The test of lines 97 and 220: neither an "error" nor a "parse_error"    *)
(* key.                                                                    *)
(***************************************************************************)
NoErrorKeys_OnlyError(r) == r.error = NoKey

NoErrorKeys(r) == r.error = NoKey /\ r.parse_error = NoKey

Status(r) ==
    IF r.error # NoKey THEN "call_error"
    ELSE IF r.parse_error # NoKey THEN "parse_error"
    ELSE "ok"

(***************************************************************************)
(* Cache files: absent, not decodable as JSON, or a JSON object.           *)
(***************************************************************************)
AbsentEntry == [kind |-> "absent", val |-> BlankResult]
CorruptEntry == [kind |-> "corrupt", val |-> BlankResult]
JsonEntry(r) == [kind |-> "json", val |-> r]

StaleError ==
    [BlankResult EXCEPT !.timestamp_range = TimestampRange(0, 1),
                        !.error = "old failure", !.activity = "error",
                        !.productivity = "unknown", !.confidence = "0.0"]
StaleParseError ==
    [BlankResult EXCEPT !.timestamp_range = TimestampRange(0, 1),
                        !.raw_response = "garbage",
                        !.parse_error = "old decode failure",
                        !.activity = "parse_error",
                        !.productivity = "unknown", !.confidence = "0.0"]

(***************************************************************************)
(* The inference service: a call returns text or raises.                   *)
(***************************************************************************)
Texts == {"obj", "objErrKey", "objBadMem", "objNoLoc", "array", "garbage"}
Unbound == "<unbound>"

(***************************************************************************)
(* response.text of line 144: a text of Texts, bare or with white space    *)
(* around it (a closing newline, say).  str.strip() gives the bare text.   *)
(***************************************************************************)
ResponseTexts == [text : Texts, padded : BOOLEAN]
NoResponse == [text |-> Unbound, padded |-> FALSE]
strip(r) == r.text

(***************************************************************************)
(* An exception: its class, whether its text holds "429", and the wait its *)
(* text announces after "retry in": the digits before the decimal point    *)
(* (retry_in, -1 when the text has no "retry in <digits>") and the tenths  *)
(* after it (retry_frac, 0 when the text gives whole seconds).             *)
(***************************************************************************)
NoExc ==
    [cls |-> "none", has429 |-> FALSE, retry_in |-> -1, retry_frac |-> 0,
     msg |-> ""]
Exc429 ==
    [cls |-> "ClientError", has429 |-> TRUE, retry_in |-> RetryInSecs,
     retry_frac |-> 0, msg |-> "429 retry in Ns"]
Exc429Frac ==
    [cls |-> "ClientError", has429 |-> TRUE, retry_in |-> RetryInSecs,
     retry_frac |-> RetryInTenths, msg |-> "429 retry in N.Ds"]
ExcExhausted ==
    [cls |-> "ResourceExhausted", has429 |-> FALSE, retry_in |-> -1,
     retry_frac |-> 0, msg |-> "quota exceeded"]
ExcServer ==
    [cls |-> "ServerError", has429 |-> FALSE, retry_in |-> -1,
     retry_frac |-> 0, msg |-> "503 unavailable"]
ExcDecode ==
    [cls |-> "JSONDecodeError", has429 |-> FALSE, retry_in |-> -1,
     retry_frac |-> 0, msg |-> "Expecting value"]
Excs == {Exc429, Exc429Frac, ExcExhausted, ExcServer, ExcDecode}

IsRateLimit(e) == e.has429 \/ e.cls = "ResourceExhausted"

(***************************************************************************)
(* Lines 154-159: the regular expression takes the digits that follow      *)
(* "retry in" and stops at the decimal point.                              *)
(***************************************************************************)
RetryDelay_NoBuffer(e) ==
    IF e.retry_in >= 0 THEN e.retry_in ELSE DefaultRetryDelay

RetryDelay(e) ==
    IF e.retry_in >= 0 THEN e.retry_in + RetryDelayBuffer ELSE DefaultRetryDelay

(***************************************************************************)
(* What cleaning, json.loads and the bracket repair make of a text:        *)
(* whether it decodes, whether the value is a dict, and the dict.          *)
(***************************************************************************)
Landmark(obj, ty, loc) ==
    [object |-> obj, type |-> ty, location |-> loc, first_seen |-> NoStamp]

Decode(t) ==
    CASE t = "obj" ->
           [decodes |-> TRUE, isObject |-> TRUE,
            val |-> [BlankResult EXCEPT
                       !.activity = "framing", !.productivity = "PRODUCTIVE",
                       !.confidence = "0.9",
                       !.spatial_memory =
                          [shape |-> "list", items |-> <<Landmark("ladder", "equipment", "north wall")>>]]]
      [] t = "objErrKey" ->
           [decodes |-> TRUE, isObject |-> TRUE,
            val |-> [BlankResult EXCEPT
                       !.activity = "idle", !.productivity = "IDLE",
                       !.error = "camera blocked"]]
      [] t = "objBadMem" ->
           [decodes |-> TRUE, isObject |-> TRUE,
            val |-> [BlankResult EXCEPT
                       !.activity = "walking", !.productivity = "TRANSITIONAL",
                       !.spatial_memory =
                          [shape |-> "strings", items |-> <<>>]]]
      [] t = "objNoLoc" ->
           [decodes |-> TRUE, isObject |-> TRUE,
            val |-> [BlankResult EXCEPT
                       !.activity = "carrying", !.productivity = "PRODUCTIVE",
                       !.spatial_memory =
                          [shape |-> "list",
                           items |-> <<Landmark("cone", "hazard", NoKey)>>]]]
      [] t = "array" ->
           [decodes |-> TRUE, isObject |-> FALSE, val |-> BlankResult]
      [] OTHER ->
           [decodes |-> FALSE, isObject |-> FALSE, val |-> BlankResult]

(***************************************************************************)
(* Lines 185-197 on a text given token by token: the delimiters, the       *)
(* comma, "k" for a key with its colon, "v" for a scalar value and " " for *)
(* white space.  json.loads skips white space between tokens and accepts   *)
(* exactly one JSON value with nothing after it.                           *)
(***************************************************************************)
Tokens == {"{", "}", "[", "]", ",", "k", "v", " "}

NL == "\n"
IsSpace(c) == c = " " \/ c = NL
NotSpace(c) == ~IsSpace(c)

RECURSIVE ParseValue(_, _), ParseElements(_, _), ParseMembers(_, _)
\* The position after the value that starts at p, or 0 when there is none.
ParseValue(t, p) ==
    IF p > Len(t) THEN 0
    ELSE IF t[p] = "v" THEN p + 1
    ELSE IF t[p] = "["
    THEN IF p + 1 <= Len(t) /\ t[p + 1] = "]" THEN p + 2
         ELSE ParseElements(t, p + 1)
    ELSE IF t[p] = "{"
    THEN IF p + 1 <= Len(t) /\ t[p + 1] = "}" THEN p + 2
         ELSE ParseMembers(t, p + 1)
    ELSE 0

ParseElements(t, p) ==
    LET q == ParseValue(t, p)
    IN  IF q = 0 \/ q > Len(t) THEN 0
        ELSE IF t[q] = "]" THEN q + 1
        ELSE IF t[q] = "," THEN ParseElements(t, q + 1)
        ELSE 0

ParseMembers(t, p) ==
    IF p > Len(t) \/ t[p] # "k" THEN 0
    ELSE LET q == ParseValue(t, p + 1)
         IN  IF q = 0 \/ q > Len(t) THEN 0
             ELSE IF t[q] = "}" THEN q + 1
             ELSE IF t[q] = "," THEN ParseMembers(t, q + 1)
             ELSE 0

json_loads(t) ==
    LET u == SelectSeq(t, NotSpace)
    IN  [ok |-> ParseValue(u, 1) = Len(u) + 1,
         isDict |-> Len(u) > 0 /\ u[1] = "{"]

RECURSIVE rstrip_space(_)
rstrip_space(t) ==
    IF Len(t) > 0 /\ IsSpace(t[Len(t)])
    THEN rstrip_space(SubSeq(t, 1, Len(t) - 1))
    ELSE t

count(t, c) == Cardinality({k \in 1..Len(t) : t[k] = c})

\* Python's c * n: empty for n <= 0.
Times(c, n) == [k \in 1..n |-> c]

RECURSIVE rstrip(_, _)
rstrip(t, c) ==
    IF Len(t) > 0 /\ t[Len(t)] = c THEN rstrip(SubSeq(t, 1, Len(t) - 1), c) ELSE t

Repair_KeepComma(cleaned) ==
    LET open_braces == count(cleaned, "{") - count(cleaned, "}")
        open_brackets == count(cleaned, "[") - count(cleaned, "]")
    IN  rstrip_space(cleaned) \o Times("]", open_brackets)
                              \o Times("}", open_braces)

Repair_ObjectsFirst(cleaned) ==
    LET open_braces == count(cleaned, "{") - count(cleaned, "}")
        open_brackets == count(cleaned, "[") - count(cleaned, "]")
    IN  rstrip(rstrip_space(cleaned), ",") \o Times("}", open_braces)
                                           \o Times("]", open_brackets)

Repair(cleaned) ==
    LET open_braces == count(cleaned, "{") - count(cleaned, "}")
        open_brackets == count(cleaned, "[") - count(cleaned, "]")
    IN  rstrip(rstrip_space(cleaned), ",") \o Times("]", open_brackets)
                                           \o Times("}", open_braces)

(***************************************************************************)
(* Lines 185-217 for a cleaned text: whether the repair was tried, the     *)
(* text that was decoded last, and the status of the result.  A decoded    *)
(* value that is no dict fails at line 197 and gives an error result.      *)
(***************************************************************************)
DecodeCleaned(cleaned) ==
    LET first == json_loads(cleaned)
        fixed == Repair(cleaned)
        second == json_loads(fixed)
    IN  IF first.ok
        THEN [repaired |-> FALSE, fixed |-> cleaned,
              status |-> IF first.isDict THEN "ok" ELSE "call_error"]
        ELSE [repaired |-> TRUE, fixed |-> fixed,
              status |-> IF ~second.ok THEN "parse_error"
                         ELSE IF second.isDict THEN "ok" ELSE "call_error"]

(***************************************************************************)
(* Lines 144 and 176-183 on a response text: a sequence of the tokens      *)
(* above, of new lines, of code-fence markers (three backquotes) and of    *)
(* the language tag json.                                                  *)
(***************************************************************************)
Fence == "fence"      \* the three backquotes
Tag == "json"

startswith(t, c) == IF Len(t) > 0 THEN t[1] = c ELSE FALSE
endswith(t, c) == IF Len(t) > 0 THEN t[Len(t)] = c ELSE FALSE

RECURSIVE lstrip_space(_)
lstrip_space(t) ==
    IF Len(t) > 0 /\ IsSpace(t[1]) THEN lstrip_space(Tail(t)) ELSE t

\* str.strip()
StripText(t) == lstrip_space(rstrip_space(t))

\* cleaned.split("\n", 1)[1]: what follows the first new line.
RECURSIVE AfterFirstLine(_)
AfterFirstLine(t) ==
    IF Len(t) = 0 THEN t
    ELSE IF t[1] = NL THEN Tail(t)
    ELSE AfterFirstLine(Tail(t))

\* Line 178: the first line goes, or the marker alone when there is one line.
DropOpening(t) == IF count(t, NL) > 0 THEN AfterFirstLine(t) ELSE Tail(t)

Clean(raw_text) ==
    LET a == IF startswith(raw_text, Fence) THEN DropOpening(raw_text)
             ELSE raw_text
        b == IF endswith(a, Fence) THEN SubSeq(a, 1, Len(a) - 1) ELSE a
        c == StripText(b)
    IN  IF startswith(c, Tag) THEN StripText(Tail(c)) ELSE c

(***************************************************************************)
(* Lines 144-217 for a structured-mode response text: the status of the    *)
(* result, the decoded value (the tokens of the text decoded last, white   *)
(* space aside) and the raw_response key of a parse_error result.          *)
(***************************************************************************)
NoRaw == <<NoKey>>
AnalyzeText(text) ==
    LET raw == StripText(text)
        d == DecodeCleaned(Clean(raw))
    IN  [status |-> d.status,
         value |-> IF d.status = "ok" THEN SelectSeq(d.fixed, NotSpace)
                   ELSE <<>>,
         raw_response |-> IF d.status = "parse_error" THEN raw ELSE NoRaw]

(***************************************************************************)
(* The three results analyze_chunk builds itself (lines 167-173, 200-207,  *)
(* 211-217).                                                               *)
(***************************************************************************)
NaiveResult_NoConfidence(ts, rt) ==
    [BlankResult EXCEPT !.timestamp_range = ts, !.raw_response = rt,
                        !.activity = "unknown", !.productivity = "unknown"]

NaiveResult(ts, rt) ==
    [BlankResult EXCEPT !.timestamp_range = ts, !.raw_response = rt,
                        !.activity = "unknown", !.productivity = "unknown",
                        !.confidence = "0.0"]

ParseErrorResult_NoRaw(ts, rt) ==
    [BlankResult EXCEPT !.timestamp_range = ts,
                        !.parse_error = "decode failed",
                        !.activity = "parse_error", !.productivity = "unknown",
                        !.confidence = "0.0"]

ParseErrorResult(ts, rt) ==
    [BlankResult EXCEPT !.timestamp_range = ts, !.raw_response = rt,
                        !.parse_error = "decode failed",
                        !.activity = "parse_error", !.productivity = "unknown",
                        !.confidence = "0.0"]

ErrorResult(ts, msg) ==
    [BlankResult EXCEPT !.timestamp_range = ts, !.error = msg,
                        !.activity = "error", !.productivity = "unknown",
                        !.confidence = "0.0"]

(***************************************************************************)
(* Lines 166-217: the result of a chunk from the text the call returned    *)
(* (e = NoExc) or from the exception e that left the retry loop.  A        *)
(* JSONDecodeError raised by the call enters the handler of line 199,      *)
(* which reads raw_text before it was ever assigned: that raises again,    *)
(* out of analyze_chunk.  A decoded value that is no dict fails at line    *)
(* 197 with a TypeError, which the handler of line 208 turns into an       *)
(* error result.                                                           *)
(***************************************************************************)
BuildResult(m, ts, rt, e) ==
    IF e # NoExc
    THEN IF e.cls = "JSONDecodeError"
         THEN [raised |-> TRUE, result |-> BlankResult]
         ELSE [raised |-> FALSE, result |-> ErrorResult(ts, e.msg)]
    ELSE IF m = "naive"
    THEN [raised |-> FALSE, result |-> NaiveResult(ts, rt)]
    ELSE LET d == Decode(rt)
         IN  IF ~d.decodes
             THEN [raised |-> FALSE, result |-> ParseErrorResult(ts, rt)]
             ELSE IF ~d.isObject
             THEN [raised |-> FALSE,
                   result |-> ErrorResult(ts, "TypeError: item assignment")]
             ELSE [raised |-> FALSE,
                   result |-> [d.val EXCEPT !.timestamp_range = ts]]

(***************************************************************************)
(* Lines 219-226: write a result without error keys, else remove the file. *)
(***************************************************************************)
CacheStep_NeverWrite(c, path, r) ==
    IF c[path].kind # "absent" /\ ~NoErrorKeys(r)
    THEN [c EXCEPT ![path] = AbsentEntry]
    ELSE c

CacheStep_WriteAll(c, path, r) == [c EXCEPT ![path] = JsonEntry(r)]

CacheStep_NoUnlink(c, path, r) ==
    IF NoErrorKeys(r) THEN [c EXCEPT ![path] = JsonEntry(r)] ELSE c

CacheStep(c, path, r) ==
    IF NoErrorKeys(r)
    THEN [c EXCEPT ![path] = JsonEntry(r)]
    ELSE IF c[path].kind # "absent"
    THEN [c EXCEPT ![path] = AbsentEntry]
    ELSE c

(***************************************************************************)
(* Lines 147-164: what the retry loop does with an exception of the call,  *)
(* given the retry count so far.                                           *)
(***************************************************************************)
OnCallFailure_OffByOne(e, rc) ==
    IF IsRateLimit(e)
    THEN IF rc + 1 > max_retries
         THEN [retry |-> FALSE, rc |-> rc + 1, delay |-> 0]
         ELSE [retry |-> TRUE, rc |-> rc + 1, delay |-> RetryDelay(e)]
    ELSE [retry |-> FALSE, rc |-> rc, delay |-> 0]

OnCallFailure(e, rc) ==
    IF IsRateLimit(e)
    THEN IF rc + 1 >= max_retries
         THEN [retry |-> FALSE, rc |-> rc + 1, delay |-> 0]
         ELSE [retry |-> TRUE, rc |-> rc + 1, delay |-> RetryDelay(e)]
    ELSE [retry |-> FALSE, rc |-> rc, delay |-> 0]

(***************************************************************************)
(* Lines 106-115: the prompt of a chunk.  The memory argument is None or   *)
(* the landmark list (line 269); None and the empty list are both false in *)
(* the test of line 108.  A line of the summary is built from the object,  *)
(* type and location of a record (line 111), which raises KeyError when    *)
(* the record lacks one of them.                                           *)
(***************************************************************************)
MEMORY_WINDOW == 20

None == [given |-> FALSE, items |-> <<>>]
MemoryArg(use_memory, sm) ==
    IF use_memory THEN [given |-> TRUE, items |-> sm] ELSE None
Truthy(memory) == memory.given /\ memory.items # <<>>

LastN_FirstN(items, n) == SubSeq(items, 1, Min(n, Len(items)))

LastN(items, n) ==
    SubSeq(items, Len(items) - Min(n, Len(items)) + 1, Len(items))

HasLineKeys(item) ==
    item.object # NoKey /\ item.type # NoKey /\ item.location # NoKey
MemoryLine(item) ==
    [object |-> item.object, type |-> item.type, location |-> item.location]

NoSummary == [placeholder |-> FALSE, lines |-> <<>>]
MemorySummary(memory_lines) ==
    IF memory_lines # <<>>
    THEN [placeholder |-> FALSE, lines |-> memory_lines]
    ELSE [placeholder |-> TRUE, lines |-> <<>>]

NoPrompt == [kind |-> "none", memory_summary |-> NoSummary]
NAIVE_PROMPT == [kind |-> "naive", memory_summary |-> NoSummary]
build_structured_prompt == [kind |-> "structured", memory_summary |-> NoSummary]
build_memory_prompt(memory_summary) ==
    [kind |-> "memory", memory_summary |-> memory_summary]

BuildPrompt(m, memory) ==
    IF m = "naive"
    THEN [raised |-> FALSE, prompt |-> NAIVE_PROMPT]
    ELSE IF m = "structured" /\ Truthy(memory)
    THEN LET recent == LastN(memory.items, MEMORY_WINDOW)
         IN  IF \E k \in 1..Len(recent) : ~HasLineKeys(recent[k])
             THEN [raised |-> TRUE, prompt |-> NoPrompt]
             ELSE [raised |-> FALSE,
                   prompt |-> build_memory_prompt(MemorySummary(
                       [k \in 1..Len(recent) |-> MemoryLine(recent[k])]))]
    ELSE [raised |-> FALSE, prompt |-> build_structured_prompt]

(***************************************************************************)
(* Line 268: the mode run_pipeline hands to analyze_chunk.                 *)
(***************************************************************************)
AnalyzeMode(m) == IF m = "memory" THEN "structured" ELSE m

(***************************************************************************)
(* Lines 251-252: the max_chunks argument; None is NoCap.                  *)
(***************************************************************************)
NoCap == -1
CapArgs == {NoCap} \cup (0..MaxCap)
ApplyCap_Ignored(cs, cap) == cs

ApplyCap(cs, cap) == IF cap # NoCap /\ cap # 0 THEN Slice(cs, 0, cap) ELSE cs

(***************************************************************************)
(* Lines 276-278: every item of the result gets first_seen.                *)
(***************************************************************************)
Stamp(items, ts) == [k \in 1..Len(items) |-> [items[k] EXCEPT !.first_seen = ts]]

(***************************************************************************)
(* Line 272, line 278 over the items of a result, and line 292 (the        *)
(* seconds slept between chunks so far).                                   *)
(***************************************************************************)
timeline_append_Front(tl, r) == <<r>> \o tl

timeline_append(tl, r) == Append(tl, r)

Accumulate_Front(sm, items) == items \o sm

Accumulate_Skip(sm, items) == sm

Accumulate_Latest(sm, items) == items

Accumulate(sm, items) == sm \o items

Pause_Skip(t) == t

Pause(t) == t + REQUEST_DELAY_SECONDS

(***************************************************************************)
(* compile_summary, lines 314-374, without the hazard lists.  A percentage *)
(* is held in tenths of a percent (333 is 33.3).  A stretch record whose   *)
(* "timestamp" key is missing has NoStamp there; "?" is QuestionMark.      *)
(***************************************************************************)
QuestionMark == <<-3, -3>>

\* entry.get("activity", "unknown")
ActivityLabel_Raw(entry) == entry.activity

ActivityLabel(entry) ==
    IF entry.activity = NoKey THEN "unknown" ELSE entry.activity

\* Lines 321-323: the dict of the labels seen, each with its count.
activities_WithUnknown(tl) ==
    [a \in {ActivityLabel(tl[k]) : k \in 1..Len(tl)} \cup {"unknown"} |->
        Cardinality({k \in 1..Len(tl) : ActivityLabel(tl[k]) = a})]

activities(tl) ==
    [a \in {ActivityLabel(tl[k]) : k \in 1..Len(tl)} |->
        Cardinality({k \in 1..Len(tl) : ActivityLabel(tl[k]) = a})]

\* Lines 325-327.
productivities(tl) ==
    [l \in {"PRODUCTIVE", "TRANSITIONAL", "IDLE"} |->
        Cardinality({k \in 1..Len(tl) : tl[k].productivity = l})]

\* round(x, 1) of x = num / den * 100, in tenths, ties to the even digit.
Round1(num, den) ==
    LET q == (num * 1000) \div den
        r == (num * 1000) % den
    IN  IF 2 * r < den THEN q
        ELSE IF 2 * r > den THEN q + 1
        ELSE IF q % 2 = 0 THEN q ELSE q + 1

\* Line 333.
total_LabelledOnly(tl) ==
    Cardinality({k \in 1..Len(tl) :
                    tl[k].productivity \in {"PRODUCTIVE", "TRANSITIONAL", "IDLE"}})

total(tl) == Len(tl)

\* Lines 334-336 and 366-368.
Pct(cnt, n) == IF n # 0 THEN Round1(cnt, n) ELSE 0

\* Lines 349-354 and 357-361.
Stretch(tl, streak_start, current_streak) ==
    [start_chunk |-> streak_start,
     end_chunk |-> streak_start + current_streak - 1,
     duration_chunks |-> current_streak,
     timestamp |-> IF tl[streak_start + 1].timestamp_range = NoStamp
                   THEN QuestionMark
                   ELSE tl[streak_start + 1].timestamp_range]

LastStretch(streak_start, current_streak) ==
    [start_chunk |-> streak_start,
     end_chunk |-> streak_start + current_streak - 1,
     duration_chunks |-> current_streak,
     timestamp |-> NoStamp]

\* Lines 356-361.
AfterLoop_Dropped(out, streak_start, current_streak) == out

AfterLoop(out, streak_start, current_streak) ==
    IF current_streak >= 2
    THEN Append(out, LastStretch(streak_start, current_streak))
    ELSE out

\* Lines 339-361; idx is the loop's i.
RECURSIVE IdleScan(_, _, _, _, _)
IdleScan(tl, idx, current_streak, streak_start, out) ==
    IF idx = Len(tl) THEN AfterLoop(out, streak_start, current_streak)
    ELSE IF tl[idx + 1].productivity = "IDLE"
    THEN IdleScan(tl, idx + 1, current_streak + 1,
                  IF current_streak = 0 THEN idx ELSE streak_start, out)
    ELSE IdleScan(tl, idx + 1, 0, streak_start,
                  IF current_streak >= 2
                  THEN Append(out, Stretch(tl, streak_start, current_streak))
                  ELSE out)

idle_stretches(tl) == IdleScan(tl, 0, 0, 0, <<>>)

compile_summary(tl) ==
    [activity_distribution |-> activities(tl),
     productivity |->
        [productive_pct |-> Pct(productivities(tl)["PRODUCTIVE"], total(tl)),
         transitional_pct |-> Pct(productivities(tl)["TRANSITIONAL"], total(tl)),
         idle_pct |-> Pct(productivities(tl)["IDLE"], total(tl))],
     total_segments |-> total(tl),
     idle_stretches |-> idle_stretches(tl)]

NoOutput ==
    [mode |-> "none", total_frames |-> 0, total_chunks |-> 0,
     timeline |-> <<>>, spatial_memory |-> <<>>,
     summary |-> compile_summary(<<>>)]

VARIABLES
    frames,          \* number of frame files in the frames directory
    cache,           \* the cache directory: path -> file
    saved,           \* output/timeline_<mode>.json per mode
    returned,        \* what the last run_pipeline call returned
    runs,            \* run_pipeline calls started
    pc,              \* position of the current run
    mode,            \* run_pipeline's mode argument
    max_chunks,      \* run_pipeline's max_chunks argument (kept by SpecLong)
    chunks,          \* run_pipeline's chunks
    i,               \* loop index of run_pipeline
    timeline,
    spatial_memory,
    pause_total,     \* seconds slept at line 292 in this run
    cached,          \* analyze_chunk's cached (line 95), kept for the chunk's cycle
    prompt,          \* analyze_chunk's prompt
    retry_count,     \* analyze_chunk's retry_count
    attempts,        \* generate_content calls made for the current chunk
    sleeps,          \* backoff sleeps made for the current chunk
    delay,           \* retry_delay of the sleep in progress
    response,        \* response.text of line 144, kept for the chunk's cycle
    raw_text,
    exc,             \* the exception in flight (e of line 147)
    result,          \* analyze_chunk's return value
    cf_in, cf_size, cf_out, cf_pc,  \* chunk_frames applied on its own
    pm_mode, pm_memory, pm_out, pm_pc,  \* the prompt built on its own
    sz_cleaned, sz_out, sz_pc,          \* the decoding of a cleaned text on its own
    rs_open, rs_body, rs_close, rs_out, rs_pc,  \* a response text on its own
    cs_timeline, cs_out, cs_pc,         \* compile_summary on its own
    cc_cache, cc_pc, cc_i, cc_ok, cc_linked  \* two runs of one mode at once

vars ==
    <<frames, cache, saved, returned, runs, pc, mode, max_chunks, chunks, i,
      timeline, spatial_memory, pause_total, cached, prompt, retry_count, attempts,
      sleeps, delay, response, raw_text, exc, result, cf_in, cf_size, cf_out,
      cf_pc,
      pm_mode, pm_memory, pm_out, pm_pc, sz_cleaned, sz_out, sz_pc,
      rs_open, rs_body, rs_close, rs_out, rs_pc, cs_timeline, cs_out, cs_pc,
      cc_cache, cc_pc, cc_i, cc_ok, cc_linked>>

cfVars == <<cf_in, cf_size, cf_out, cf_pc>>
pmVars == <<pm_mode, pm_memory, pm_out, pm_pc>>
szVars == <<sz_cleaned, sz_out, sz_pc>>
rsVars == <<rs_open, rs_body, rs_close, rs_out, rs_pc>>
csVars == <<cs_timeline, cs_out, cs_pc>>
ccVars == <<cc_cache, cc_pc, cc_i, cc_ok, cc_linked>>
fnVars == <<cfVars, pmVars, szVars, rsVars, csVars, ccVars>>
runVars ==
    <<frames, cache, saved, returned, runs, pc, mode, max_chunks, chunks, i,
      timeline, spatial_memory, pause_total, cached, prompt, retry_count, attempts,
      sleeps, delay, response, raw_text, exc, result>>
diskVars == <<frames, cache, saved>>
callVars == <<prompt, retry_count, attempts, sleeps, delay, raw_text, exc>>

(***************************************************************************)
(* The cache directory before the first run: empty, or one file left for   *)
(* chunk 0 by an earlier program version (a cached error) or by a write    *)
(* that was cut short (undecodable).                                       *)
(***************************************************************************)
EmptyCache == [p \in CachePaths |-> AbsentEntry]
LeftoverFiles == {CorruptEntry, JsonEntry(StaleError), JsonEntry(StaleParseError)}
InitialCaches ==
    {EmptyCache} \cup
    {[EmptyCache EXCEPT ![get_cache_path(0, m)] = f] :
        m \in {"naive", "structured"}, f \in LeftoverFiles}

NoRunLocals ==
    /\ mode = "none"
    /\ max_chunks = NoCap
    /\ chunks = <<>>
    /\ i = 0
    /\ timeline = <<>>
    /\ spatial_memory = <<>>
    /\ pause_total = 0
    /\ cached = AbsentEntry
    /\ prompt = NoPrompt
    /\ retry_count = 0
    /\ attempts = 0
    /\ sleeps = 0
    /\ delay = 0
    /\ response = NoResponse
    /\ raw_text = Unbound
    /\ exc = NoExc
    /\ result = BlankResult

ChunkerOff == cf_in = <<>> /\ cf_size = 1 /\ cf_out = <<>> /\ cf_pc = "off"

PromptOff ==
    /\ pm_mode = "none"
    /\ pm_memory = None
    /\ pm_out = [raised |-> FALSE, prompt |-> NoPrompt]
    /\ pm_pc = "off"

NoDecoding == [repaired |-> FALSE, fixed |-> <<>>, status |-> "none"]
SanitizerOff == sz_cleaned = <<>> /\ sz_out = NoDecoding /\ sz_pc = "off"

NoAnalysis == [status |-> "none", value |-> <<>>, raw_response |-> NoRaw]
ResponseOff ==
    /\ rs_open = <<>>
    /\ rs_body = <<>>
    /\ rs_close = <<>>
    /\ rs_out = NoAnalysis
    /\ rs_pc = "off"

SummaryOff ==
    /\ cs_timeline = <<>>
    /\ cs_out = compile_summary(<<>>)
    /\ cs_pc = "off"

ConcurrentOff ==
    /\ cc_cache = <<>>
    /\ cc_pc = <<>>
    /\ cc_i = <<>>
    /\ cc_ok = <<>>
    /\ cc_linked = <<>>

Init ==
    /\ frames \in 0..MaxFrames
    /\ cache \in InitialCaches
    /\ saved = [m \in Modes |-> NoOutput]
    /\ returned = NoOutput
    /\ runs = 0
    /\ pc = "idle"
    /\ NoRunLocals
    /\ ChunkerOff
    /\ PromptOff
    /\ SanitizerOff
    /\ ResponseOff
    /\ SummaryOff
    /\ ConcurrentOff

(***************************************************************************)
(* An exception leaves run_pipeline: the process ends, nothing is          *)
(* returned, the files stay as they are.                                   *)
(***************************************************************************)
RunLocalsGone ==
    /\ mode' = "none"
    /\ max_chunks' = NoCap
    /\ chunks' = <<>>
    /\ i' = 0
    /\ timeline' = <<>>
    /\ spatial_memory' = <<>>
    /\ pause_total' = 0
    /\ cached' = AbsentEntry
    /\ prompt' = NoPrompt
    /\ retry_count' = 0
    /\ attempts' = 0
    /\ sleeps' = 0
    /\ delay' = 0
    /\ response' = NoResponse
    /\ raw_text' = Unbound
    /\ exc' = NoExc
    /\ result' = BlankResult

Crash ==
    /\ pc' = "aborted"
    /\ returned' = NoOutput
    /\ RunLocalsGone
    /\ UNCHANGED <<diskVars, fnVars>>

(***************************************************************************)
(* run_pipeline, lines 247-259.  max_chunks is not read after line 252;    *)
(* only the single-run specification keeps it (keep) to compare the run    *)
(* with it.                                                                *)
(***************************************************************************)
FreshMemory_Carried == returned.spatial_memory

\* Line 255.
FreshMemory == <<>>

Start(limit, keep) ==
    /\ pc \in {"idle", "done", "aborted"}
    /\ runs < limit
    /\ runs' = runs + 1
    /\ \E m \in Modes, cap \in CapArgs :
         IF frames = 0
         THEN Crash        \* load_frames raises FileNotFoundError
         ELSE LET cs == ApplyCap(chunk_frames(load_frames(frames),
                                              FRAMES_PER_CHUNK), cap)
              IN  /\ mode' = m
                  /\ max_chunks' = IF keep THEN cap ELSE NoCap
                  /\ chunks' = cs
                  /\ i' = 0
                  /\ timeline' = <<>>
                  /\ spatial_memory' = FreshMemory
                  /\ pause_total' = 0
                  /\ pc' = IF Len(cs) > 0 THEN "check" ELSE "compile"
                  /\ UNCHANGED <<diskVars, returned, cached, callVars,
                                 response, result, fnVars>>

StartRun == Start(MaxRuns, FALSE)

(***************************************************************************)
(* analyze_chunk, lines 91-122: the cache check.  json.load of line 95 is  *)
(* outside every try block, so an undecodable file raises out of           *)
(* analyze_chunk and run_pipeline.  A file with an error key is left in    *)
(* place and the call is made.                                             *)
(***************************************************************************)
CacheHit_Never(file) == FALSE

\* Lines 93-98: the file exists and holds neither error key.
CacheHit(file) == file.kind = "json" /\ NoErrorKeys(file.val)

CheckCache ==
    /\ pc = "check"
    /\ LET m == AnalyzeMode(mode)
           cache_path == get_cache_path(i, m)
           file == cache[cache_path]
           hit == CacheHit(file)
           p == BuildPrompt(m, MemoryArg(mode = "memory", spatial_memory))
       IN  IF file.kind = "corrupt" \/ (~hit /\ p.raised)
           THEN Crash /\ UNCHANGED runs
           ELSE /\ cached' = file
                /\ IF hit
                   THEN /\ result' = file.val
                        /\ pc' = "append"
                        /\ UNCHANGED <<retry_count, prompt>>
                   ELSE /\ pc' = "call"
                        /\ prompt' = p.prompt
                        /\ retry_count' = 0
                        /\ UNCHANGED result
                /\ UNCHANGED <<diskVars, returned, runs, mode, max_chunks, chunks, i,
                               timeline, spatial_memory, pause_total, attempts,
                               sleeps, delay, response, raw_text, exc,
                               fnVars>>

(***************************************************************************)
(* Lines 125-164: one pass of the retry loop, the call answered by a text  *)
(* or by an exception.  The loop's counters are not read after the loop;   *)
(* they are cleared when it is left.                                       *)
(***************************************************************************)
Call ==
    /\ pc = "call"
    /\ \/ \E r \in ResponseTexts :
            /\ response' = r
            /\ raw_text' = strip(r)
            /\ exc' = NoExc
            /\ pc' = "finish"
            /\ retry_count' = 0
            /\ attempts' = 0
            /\ sleeps' = 0
            /\ delay' = 0
       \/ \E e \in Excs :
            LET f == OnCallFailure(e, retry_count)
            IN  /\ exc' = e
                /\ delay' = f.delay
                /\ pc' = IF f.retry THEN "sleep" ELSE "finish"
                /\ retry_count' = IF f.retry THEN f.rc ELSE 0
                /\ attempts' = IF f.retry THEN attempts + 1 ELSE 0
                /\ sleeps' = IF f.retry THEN sleeps ELSE 0
                /\ UNCHANGED <<response, raw_text>>
    /\ UNCHANGED <<diskVars, returned, runs, mode, max_chunks, chunks, i, timeline,
                   spatial_memory, pause_total, cached, prompt, result, fnVars>>

(***************************************************************************)
(* Line 162: the backoff sleep, then the next pass of the loop (e is       *)
(* unbound again when the except block is left).                           *)
(***************************************************************************)
Sleep ==
    /\ pc = "sleep"
    /\ sleeps' = sleeps + 1
    /\ pc' = "call"
    /\ exc' = NoExc
    /\ delay' = 0
    /\ UNCHANGED <<diskVars, returned, runs, mode, max_chunks, chunks, i, timeline,
                   spatial_memory, pause_total, cached, prompt, retry_count,
                   attempts, response, raw_text, result, fnVars>>

(***************************************************************************)
(* Lines 166-228: build the result, write or remove the cache file,        *)
(* return.                                                                 *)
(***************************************************************************)
Finish ==
    /\ pc = "finish"
    /\ LET m == AnalyzeMode(mode)
           cache_path == get_cache_path(i, m)
           ts == TimestampRange(i, Len(chunks[i + 1]))
           b == BuildResult(m, ts, raw_text, exc)
       IN  IF b.raised
           THEN Crash /\ UNCHANGED runs
           ELSE /\ result' = b.result
                /\ cache' = CacheStep(cache, cache_path, b.result)
                /\ pc' = "append"
                /\ raw_text' = Unbound
                /\ exc' = NoExc
                /\ prompt' = NoPrompt
                /\ UNCHANGED <<frames, saved, returned, runs, mode, max_chunks,
                               chunks, i, timeline, spatial_memory,
                               pause_total, cached, retry_count, attempts,
                               sleeps, delay, response, fnVars>>

(***************************************************************************)
(* run_pipeline, lines 272-292: record the result, accumulate the memory,  *)
(* pause, go on.  The timeline holds the very dict whose items line 277    *)
(* stamps.  An item that is no dict makes line 277 raise.                  *)
(***************************************************************************)
AppendResult ==
    /\ pc = "append"
    /\ LET use_memory == mode = "memory"
           sm == result.spatial_memory
       IN  IF use_memory /\ sm.shape = "strings"
           THEN Crash /\ UNCHANGED runs
           ELSE LET items == IF use_memory /\ sm.shape = "list"
                             THEN Stamp(sm.items, result.timestamp_range)
                             ELSE <<>>
                    recorded == IF use_memory /\ sm.shape = "list"
                                THEN [result EXCEPT !.spatial_memory.items = items]
                                ELSE result
                IN  /\ timeline' = timeline_append(timeline, recorded)
                    /\ spatial_memory' = Accumulate(spatial_memory, items)
                    /\ pause_total' = Pause(pause_total)
                    /\ i' = i + 1
                    /\ pc' = IF i + 1 < Len(chunks) THEN "check" ELSE "compile"
                    /\ result' = BlankResult
                    /\ cached' = AbsentEntry
                    /\ response' = NoResponse
                    /\ UNCHANGED <<diskVars, returned, runs, mode, max_chunks,
                                   chunks, callVars, fnVars>>

(***************************************************************************)
(* Lines 294-311: the output, saved per mode and returned.                 *)
(***************************************************************************)
Output ==
    [mode |-> mode, total_frames |-> frames, total_chunks |-> Len(chunks),
     timeline |-> timeline,
     spatial_memory |-> IF mode = "memory" THEN spatial_memory ELSE <<>>,
     summary |-> compile_summary(timeline)]

Compile ==
    /\ pc = "compile"
    /\ saved' = [saved EXCEPT ![mode] = Output]
    /\ returned' = Output
    /\ pc' = "done"
    /\ RunLocalsGone
    /\ UNCHANGED <<frames, cache, runs, fnVars>>

Next == StartRun \/ CheckCache \/ Call \/ Sleep \/ Finish \/ AppendResult \/ Compile

Spec == Init /\ [][Next]_vars

(***************************************************************************)
(* A run that was started goes on: run_pipeline is one sequential loop     *)
(* whose sleeps end and whose inference calls return.  Whether another run *)
(* is started is the user's choice.                                        *)
(***************************************************************************)
RunProceeds ==
    /\ WF_vars(CheckCache)
    /\ WF_vars(Call)
    /\ WF_vars(Sleep)
    /\ WF_vars(Finish)
    /\ WF_vars(AppendResult)
    /\ WF_vars(Compile)

SpecFair == Init /\ [][Next]_vars /\ RunProceeds

(***************************************************************************)
(* chunk_frames on its own: any sequence of frame references, any positive *)
(* chunk size.                                                             *)
(***************************************************************************)
FrameIds == 1..NumFrameIds
FrameSeqs == UNION {[1..n -> FrameIds] : n \in 0..MaxSeqLen}

InitChunker ==
    /\ frames = 0
    /\ cache = EmptyCache
    /\ saved = [m \in Modes |-> NoOutput]
    /\ returned = NoOutput
    /\ runs = 0
    /\ pc = "idle"
    /\ NoRunLocals
    /\ cf_in \in FrameSeqs
    /\ cf_size \in 1..MaxChunkSize
    /\ cf_out = <<>>
    /\ cf_pc = "input"
    /\ PromptOff
    /\ SanitizerOff
    /\ ResponseOff
    /\ SummaryOff
    /\ ConcurrentOff

ApplyChunker ==
    /\ cf_pc = "input"
    /\ cf_out' = chunk_frames(cf_in, cf_size)
    /\ cf_pc' = "done"
    /\ UNCHANGED <<runVars, cf_in, cf_size, pmVars, szVars, rsVars, csVars, ccVars>>

NextChunker == ApplyChunker

SpecChunker == InitChunker /\ [][NextChunker]_vars

(***************************************************************************)
(* One run over 9 or more frames (three chunks), the cache empty or        *)
(* holding the ok result a structured run left for chunk 1.                *)
(***************************************************************************)
LeftByStructuredRun ==
    JsonEntry(BuildResult("structured", TimestampRange(1, FRAMES_PER_CHUNK),
                          "obj", NoExc).result)
LongCaches ==
    {EmptyCache,
     [EmptyCache EXCEPT ![get_cache_path(1, "structured")] = LeftByStructuredRun]}

InitLong ==
    /\ frames \in (2 * FRAMES_PER_CHUNK + 1)..LongFrames
    /\ cache \in LongCaches
    /\ saved = [m \in Modes |-> NoOutput]
    /\ returned = NoOutput
    /\ runs = 0
    /\ pc = "idle"
    /\ NoRunLocals
    /\ ChunkerOff
    /\ PromptOff
    /\ SanitizerOff
    /\ ResponseOff
    /\ SummaryOff
    /\ ConcurrentOff

StartSingleRun == Start(1, TRUE)

NextLong ==
    \/ StartSingleRun
    \/ CheckCache
    \/ Call
    \/ Sleep
    \/ Finish
    \/ AppendResult
    \/ Compile

SpecLong == InitLong /\ [][NextLong]_vars

(***************************************************************************)
(* The prompt of lines 106-115 on its own: either mode analyze_chunk is    *)
(* given, no memory or a landmark list of up to MaxMemLen records, at most *)
(* one of which lacks its location.                                        *)
(***************************************************************************)
MemoryLists ==
    {[k \in 1..n |->
        [Landmark(ToString(k), "equipment", IF k = bad THEN NoKey ELSE "bay")
            EXCEPT !.first_seen = <<k, k + 1>>]] :
     n \in 0..MaxMemLen, bad \in 0..MaxMemLen}

InitPrompt ==
    /\ frames = 0
    /\ cache = EmptyCache
    /\ saved = [m \in Modes |-> NoOutput]
    /\ returned = NoOutput
    /\ runs = 0
    /\ pc = "idle"
    /\ NoRunLocals
    /\ ChunkerOff
    /\ pm_mode \in {"naive", "structured"}
    /\ pm_memory \in {None} \cup {MemoryArg(TRUE, l) : l \in MemoryLists}
    /\ pm_out = [raised |-> FALSE, prompt |-> NoPrompt]
    /\ pm_pc = "input"
    /\ SanitizerOff
    /\ ResponseOff
    /\ SummaryOff
    /\ ConcurrentOff

ApplyPrompt ==
    /\ pm_pc = "input"
    /\ pm_out' = BuildPrompt(pm_mode, pm_memory)
    /\ pm_pc' = "done"
    /\ UNCHANGED <<runVars, cfVars, pm_mode, pm_memory, szVars, rsVars, csVars, ccVars>>

NextPrompt == ApplyPrompt

SpecPrompt == InitPrompt /\ [][NextPrompt]_vars

(***************************************************************************)
(* The decoding of lines 185-217 on its own: every cleaned text of up to   *)
(* MaxTextLen tokens.  Lines 181 and 183 have stripped the white space at  *)
(* both ends of a cleaned text.                                            *)
(***************************************************************************)
IsStripped(t) ==
    IF Len(t) = 0 THEN TRUE ELSE NotSpace(t[1]) /\ NotSpace(t[Len(t)])

InitSanitizer ==
    /\ frames = 0
    /\ cache = EmptyCache
    /\ saved = [m \in Modes |-> NoOutput]
    /\ returned = NoOutput
    /\ runs = 0
    /\ pc = "idle"
    /\ NoRunLocals
    /\ ChunkerOff
    /\ PromptOff
    /\ \E n \in 0..MaxTextLen : sz_cleaned \in [1..n -> Tokens]
    /\ IsStripped(sz_cleaned)
    /\ sz_out = NoDecoding
    /\ sz_pc = "input"
    /\ ResponseOff
    /\ SummaryOff
    /\ ConcurrentOff

ApplySanitizer ==
    /\ sz_pc = "input"
    /\ sz_out' = DecodeCleaned(sz_cleaned)
    /\ sz_pc' = "done"
    /\ UNCHANGED <<runVars, cfVars, pmVars, sz_cleaned, rsVars, csVars, ccVars>>

NextSanitizer == ApplySanitizer

SpecSanitizer == InitSanitizer /\ [][NextSanitizer]_vars

(***************************************************************************)
(* Lines 144-217 on their own, structured mode: the response text is an    *)
(* opening of up to MaxOpenLen markers, tags and white space, a body of up *)
(* to MaxBodyLen tokens, and a closing of up to MaxCloseLen markers and    *)
(* white space (any of them may be empty).                                 *)
(***************************************************************************)
OpenTokens == {Fence, Tag, NL, " "}
BodyTokens == {"{", "}", "k", "v", ",", NL}
CloseTokens == {Fence, NL, " "}

InitResponse ==
    /\ frames = 0
    /\ cache = EmptyCache
    /\ saved = [m \in Modes |-> NoOutput]
    /\ returned = NoOutput
    /\ runs = 0
    /\ pc = "idle"
    /\ NoRunLocals
    /\ ChunkerOff
    /\ PromptOff
    /\ SanitizerOff
    /\ SummaryOff
    /\ ConcurrentOff
    /\ \E n \in 0..MaxOpenLen : rs_open \in [1..n -> OpenTokens]
    /\ \E n \in 0..MaxBodyLen : rs_body \in [1..n -> BodyTokens]
    /\ \E n \in 0..MaxCloseLen : rs_close \in [1..n -> CloseTokens]
    /\ rs_out = NoAnalysis
    /\ rs_pc = "input"

ApplyResponse ==
    /\ rs_pc = "input"
    /\ rs_out' = AnalyzeText(rs_open \o rs_body \o rs_close)
    /\ rs_pc' = "done"
    /\ UNCHANGED <<runVars, cfVars, pmVars, szVars, rs_open, rs_body, rs_close,
                   csVars, ccVars>>

NextResponse == ApplyResponse

SpecResponse == InitResponse /\ [][NextResponse]_vars

(***************************************************************************)
(* compile_summary on its own: a timeline of up to MaxTimeline results,    *)
(* each an ok result with the three productivity labels, an ok result      *)
(* without activity and productivity, an idle one without activity, or the *)
(* result of a failed chunk; the k-th stamped as chunk k - 1.              *)
(***************************************************************************)
EntryKinds ==
    {[BlankResult EXCEPT !.activity = "framing", !.productivity = "PRODUCTIVE"],
     [BlankResult EXCEPT !.activity = "walking", !.productivity = "TRANSITIONAL"],
     [BlankResult EXCEPT !.activity = "idle", !.productivity = "IDLE"],
     [BlankResult EXCEPT !.productivity = "IDLE"],
     BlankResult,
     ErrorResult(NoStamp, "service down")}

Stamped(tl) ==
    [k \in 1..Len(tl) |->
        [tl[k] EXCEPT !.timestamp_range = TimestampRange(k - 1, FRAMES_PER_CHUNK)]]

InitSummary ==
    /\ frames = 0
    /\ cache = EmptyCache
    /\ saved = [m \in Modes |-> NoOutput]
    /\ returned = NoOutput
    /\ runs = 0
    /\ pc = "idle"
    /\ NoRunLocals
    /\ ChunkerOff
    /\ PromptOff
    /\ SanitizerOff
    /\ ResponseOff
    /\ ConcurrentOff
    /\ \E n \in 0..MaxTimeline :
          \E tl \in [1..n -> EntryKinds] : cs_timeline = Stamped(tl)
    /\ cs_out = compile_summary(<<>>)
    /\ cs_pc = "input"

ApplySummary ==
    /\ cs_pc = "input"
    /\ cs_out' = compile_summary(cs_timeline)
    /\ cs_pc' = "done"
    /\ UNCHANGED <<runVars, cfVars, pmVars, szVars, rsVars, cs_timeline, ccVars>>

NextSummary == ApplySummary

SpecSummary == InitSummary /\ [][NextSummary]_vars

(***************************************************************************)
(* Two run_pipeline processes of one mode at once over one cache           *)
(* directory: each goes through the chunks in index order, and for each    *)
(* chunk through the file-system steps of analyze_chunk, which interleave  *)
(* with the other's.  A cache file is absent, holds an ok result, holds a  *)
(* result with an error key (left by an earlier version or copied in), or  *)
(* is "partial": opened for writing and truncated, json.dump not yet done. *)
(* cc_linked[r] says that the file run r has open for writing is still the *)
(* one the path names (an unlink takes the name away from the open file).  *)
(***************************************************************************)
CcChunks == 2
CcRuns == {1, 2}
CcKeys == 0..(CcChunks - 1)

\* The steps of the two runs leave everything else alone.
CcOthers == UNCHANGED <<runVars, cfVars, pmVars, szVars, rsVars, csVars>>

\* Line 228 and the loop of lines 259-292: return, go to the next chunk.
CcReturn(r) ==
    /\ cc_i' = [cc_i EXCEPT ![r] = cc_i[r] + 1]
    /\ cc_pc' = [cc_pc EXCEPT
                   ![r] = IF cc_i[r] + 1 < CcChunks THEN "exists" ELSE "done"]

CcRaise(r) ==
    /\ cc_pc' = [cc_pc EXCEPT ![r] = "crashed"]
    /\ UNCHANGED cc_i

\* Line 93: cache_path.exists().
CcExists(r) ==
    /\ cc_pc[r] = "exists"
    /\ CcOthers
    /\ cc_pc' = [cc_pc EXCEPT
                   ![r] = IF cc_cache[cc_i[r]] # "absent" THEN "load"
                          ELSE "call"]
    /\ UNCHANGED <<cc_cache, cc_i, cc_ok, cc_linked>>

\* Lines 94-98: open and json.load; FileNotFoundError and JSONDecodeError
\* leave analyze_chunk and run_pipeline.
CcLoad(r) ==
    /\ cc_pc[r] = "load"
    /\ CcOthers
    /\ LET file == cc_cache[cc_i[r]]
       IN  IF file \in {"absent", "partial"}
           THEN CcRaise(r) /\ UNCHANGED cc_ok
           ELSE IF file = "ok"
           THEN /\ CcReturn(r)
                /\ cc_ok' = [cc_ok EXCEPT ![r] = @ \cup {cc_i[r]}]
           ELSE /\ cc_pc' = [cc_pc EXCEPT ![r] = "call"]
                /\ UNCHANGED <<cc_i, cc_ok>>
    /\ UNCHANGED <<cc_cache, cc_linked>>

\* Lines 100-217: the call and the result; line 220 picks the branch.
CcCall(r) ==
    /\ cc_pc[r] = "call"
    /\ CcOthers
    /\ \E ok \in BOOLEAN :
          /\ cc_pc' = [cc_pc EXCEPT ![r] = IF ok THEN "open" ELSE "probe"]
          /\ cc_ok' = [cc_ok EXCEPT
                         ![r] = IF ok THEN @ \cup {cc_i[r]} ELSE @]
    /\ UNCHANGED <<cc_cache, cc_i, cc_linked>>

\* Line 221: open(cache_path, "w") creates or truncates the file.
CcOpen(r) ==
    /\ cc_pc[r] = "open"
    /\ CcOthers
    /\ cc_cache' = [cc_cache EXCEPT ![cc_i[r]] = "partial"]
    /\ cc_linked' = [cc_linked EXCEPT ![r] = TRUE]
    /\ cc_pc' = [cc_pc EXCEPT ![r] = "dump"]
    /\ UNCHANGED <<cc_i, cc_ok>>

\* Line 222 and the end of the with block: the result is in the open file.
CcDump(r) ==
    /\ cc_pc[r] = "dump"
    /\ CcOthers
    /\ cc_cache' = IF cc_linked[r]
                   THEN [cc_cache EXCEPT ![cc_i[r]] = "ok"]
                   ELSE cc_cache
    /\ cc_linked' = [cc_linked EXCEPT ![r] = FALSE]
    /\ CcReturn(r)
    /\ UNCHANGED cc_ok

\* Line 225: cache_path.exists().
CcProbe(r) ==
    /\ cc_pc[r] = "probe"
    /\ CcOthers
    /\ IF cc_cache[cc_i[r]] # "absent"
       THEN cc_pc' = [cc_pc EXCEPT ![r] = "unlink"] /\ UNCHANGED cc_i
       ELSE CcReturn(r)
    /\ UNCHANGED <<cc_cache, cc_ok, cc_linked>>

\* Line 226: cache_path.unlink(); FileNotFoundError when the file is gone.
CcUnlink(r) ==
    /\ cc_pc[r] = "unlink"
    /\ CcOthers
    /\ IF cc_cache[cc_i[r]] = "absent"
       THEN CcRaise(r) /\ UNCHANGED <<cc_cache, cc_linked>>
       ELSE /\ cc_cache' = [cc_cache EXCEPT ![cc_i[r]] = "absent"]
            /\ cc_linked' =
                  [q \in CcRuns |->
                     IF cc_pc[q] = "dump" /\ cc_i[q] = cc_i[r] THEN FALSE
                     ELSE cc_linked[q]]
            /\ CcReturn(r)
    /\ UNCHANGED cc_ok

InitConcurrent ==
    /\ frames = 0
    /\ cache = EmptyCache
    /\ saved = [m \in Modes |-> NoOutput]
    /\ returned = NoOutput
    /\ runs = 0
    /\ pc = "idle"
    /\ NoRunLocals
    /\ ChunkerOff
    /\ PromptOff
    /\ SanitizerOff
    /\ ResponseOff
    /\ SummaryOff
    /\ cc_cache \in [CcKeys -> {"absent", "ok", "error"}]
    /\ cc_pc = [r \in CcRuns |-> "exists"]
    /\ cc_i = [r \in CcRuns |-> 0]
    /\ cc_ok = [r \in CcRuns |-> {}]
    /\ cc_linked = [r \in CcRuns |-> FALSE]

NextConcurrent ==
    \/ \E r \in CcRuns : CcExists(r)
    \/ \E r \in CcRuns : CcLoad(r)
    \/ \E r \in CcRuns : CcCall(r)
    \/ \E r \in CcRuns : CcOpen(r)
    \/ \E r \in CcRuns : CcDump(r)
    \/ \E r \in CcRuns : CcProbe(r)
    \/ \E r \in CcRuns : CcUnlink(r)

SpecConcurrent == InitConcurrent /\ [][NextConcurrent]_vars

(***************************************************************************)
(* Helpers of the properties.                                              *)
(***************************************************************************)
Ceil(a, b) == (a + b - 1) \div b

RECURSIVE Concat(_)
Concat(ss) == IF ss = <<>> THEN <<>> ELSE Head(ss) \o Concat(Tail(ss))

\* The cache path of the chunk cycle in progress.
CurPath == get_cache_path(i, AnalyzeMode(mode))

InCycle == pc \in {"check", "call", "sleep", "finish", "append"}

IsErrorFile(f) == f.kind = "json" /\ Status(f.val) # "ok"

\* A call of the current chunk is being prepared, made or awaited.
AtCall == pc \in {"call", "sleep", "finish"}

\* The landmark records the results of a timeline report, in timeline order.
ReportedBy(tl) ==
    Concat([k \in 1..Len(tl) |->
              IF tl[k].spatial_memory.shape = "list"
              THEN tl[k].spatial_memory.items
              ELSE <<>>])

\* The positions of a run between its start and its end.
RunPcs == {"check", "call", "sleep", "finish", "append", "compile"}

IsPrefix(a, b) == Len(a) <= Len(b) /\ SubSeq(b, 1, Len(a)) = a

\* First second of chunk idx.
ChunkStart(idx) == idx * FRAMES_PER_CHUNK * FRAME_INTERVAL_SEC

(***************************************************************************)
(* C1: for every sequence of length L >= 0 and every chunk size K > 0,     *)
(* chunk_frames returns ceil(L/K) chunks, each of K elements except        *)
(* possibly the last, which has 1..K, and the chunks concatenated in order *)
(* are the input.                                                          *)
(***************************************************************************)
C1_ChunkerContract ==
    cf_pc = "done" =>
        LET L == Len(cf_in)
            K == cf_size
            n == Len(cf_out)
        IN  /\ n = Ceil(L, K)
            /\ \A j \in 1..n :
                 IF j < n THEN Len(cf_out[j]) = K
                          ELSE Len(cf_out[j]) \in 1..K
            /\ Concat(cf_out) = cf_in

C1_Witness ==
    /\ cf_pc = "done"
    /\ Len(cf_out) >= 2
    /\ Len(cf_in) % cf_size # 0

(***************************************************************************)
(* The run in progress repeats the run before it: that run completed, with *)
(* the same mode, frames and chunks, and nothing ran in between.           *)
(***************************************************************************)
Repeat ==
    /\ InCycle \/ pc = "compile"
    /\ returned # NoOutput
    /\ returned.mode = mode
    /\ returned.total_frames = frames
    /\ returned.total_chunks = Len(chunks)

AllOk(tl) == \A k \in 1..Len(tl) : Status(tl[k]) = "ok"

NoCallsSameTimeline ==
    /\ pc \notin {"call", "sleep", "finish"}
    /\ pc = "compile" => timeline = returned.timeline

(***************************************************************************)
(* C2, as claimed: a run that repeats the previous run over the unchanged  *)
(* cache issues no inference call and builds the same timeline.            *)
(***************************************************************************)
C2_Original == Repeat => NoCallsSameTimeline

(***************************************************************************)
(* C2, amended: a run that repeats the previous run over the unchanged     *)
(* cache issues no inference call and builds the same timeline, provided   *)
(* every chunk result of the previous run had status ok.                   *)
(***************************************************************************)
C2_IdempotentWhenAllOk == (Repeat /\ AllOk(returned.timeline)) => NoCallsSameTimeline

C2_Witness ==
    /\ Repeat
    /\ AllOk(returned.timeline)
    /\ pc = "compile"
    /\ Len(timeline) = 2
    /\ mode = "memory"

(***************************************************************************)
(* C3: the cache paths of the three modes are disjoint: a run of one mode  *)
(* takes a hit only from a file of its own mode and creates, overwrites or *)
(* deletes only files of its own mode.                                     *)
(***************************************************************************)
C3_NoCrossTalk ==
    [][/\ \A p \in CachePaths : cache'[p] # cache[p] => p[2] = mode
       /\ (pc = "check" /\ pc' = "append") =>
             \E p \in CachePaths :
                 p[2] = mode /\ cache[p] = JsonEntry(result')]_vars

(***************************************************************************)
(* C4: when analyze_chunk has returned a result that is not ok, the cache  *)
(* holds no file for the chunk's path; when it has returned an ok result,  *)
(* the file holds that result; and no file with a status other than ok is  *)
(* ever written (the only such files are the ones left before the first    *)
(* run).                                                                   *)
(***************************************************************************)
C4_FailedNeverCached ==
    /\ pc = "append" =>
          IF Status(result) = "ok"
          THEN cache[CurPath] = JsonEntry(result)
          ELSE cache[CurPath] = AbsentEntry
    /\ \A p \in CachePaths :
          IsErrorFile(cache[p]) => cache[p] \in LeftoverFiles

C4_Witness ==
    /\ pc = "append"
    /\ Status(result) = "parse_error"
    /\ IsErrorFile(cached)
    /\ cache[CurPath] = AbsentEntry

(***************************************************************************)
(* C5: the cache check never returns a file with an error status as a hit  *)
(* but goes on to the inference call; an ok result of that call replaces   *)
(* the file; and a file with status ok is returned as the hit by the check *)
(* that reads it.                                                          *)
(***************************************************************************)
C5_SelfHeal ==
    [][/\ (pc = "check" /\ pc' = "append") =>
             Status(result') = "ok" /\ cache[CurPath] = JsonEntry(result')
       /\ (pc = "check" /\ IsErrorFile(cache[CurPath])) => pc' = "call"
       /\ (pc = "finish" /\ pc' = "append" /\ Status(result') = "ok") =>
             cache'[CurPath] = JsonEntry(result')
       /\ (pc = "check" /\ cache[CurPath].kind = "json"
              /\ Status(cache[CurPath].val) = "ok") =>
             pc' = "append" /\ result' = cache[CurPath].val]_vars

C5_Witness ==
    /\ pc = "append"
    /\ IsErrorFile(cached)
    /\ Status(cached.val) = "parse_error"
    /\ Status(result) = "ok"
    /\ cache[CurPath] = JsonEntry(result)

(***************************************************************************)
(* C6, as claimed: the file with an error status is gone when the cache    *)
(* check completes, before the inference call is issued.                   *)
(***************************************************************************)
C6_Original == pc \in {"call", "sleep"} => ~IsErrorFile(cache[CurPath])

(***************************************************************************)
(* C6, amended: the cache check treats a file with an error status as a    *)
(* miss and leaves it in place: the file is still there while the call and *)
(* its retries are made, and only the cache step after the call removes it *)
(* (failed result) or overwrites it (ok result).                           *)
(***************************************************************************)
C6_ErrorFileKeptUntilCacheStep ==
    /\ pc \in {"call", "sleep", "finish"} =>
          /\ cache[CurPath] = cached
          /\ cached.kind = "absent" \/ IsErrorFile(cached)
    /\ (pc = "append" /\ IsErrorFile(cached)) =>
          cache[CurPath] = (IF Status(result) = "ok" THEN JsonEntry(result)
                                                     ELSE AbsentEntry)

C6_Witness ==
    /\ pc = "sleep"
    /\ IsErrorFile(cached)
    /\ cache[CurPath] = cached

(***************************************************************************)
(* C7: an undecodable cache file is a miss: the chunk goes to the          *)
(* inference call and the run is not aborted.                              *)
(***************************************************************************)
C7_CorruptIsMiss ==
    [][(pc = "check" /\ cache[CurPath].kind = "corrupt") => pc' = "call"]_vars

(***************************************************************************)
(* C8: whatever the inference service answers for a chunk, analyze_chunk   *)
(* returns a result, the result is recorded, and the run goes on: once a   *)
(* chunk is at its inference call the run is never aborted.                *)
(***************************************************************************)
C8_NoChunkFailureAborts ==
    [][(pc \in {"call", "sleep", "finish", "append"}) => (pc' # "aborted")]_vars

(***************************************************************************)
(* C9: while the loop runs, every call made so far was rate-limited and    *)
(* fewer than 5 were made; a call is followed by a retry only after a      *)
(* rate-limit failure that was not the 5th call; the 5th call always       *)
(* leaves the loop; and a rate-limit failure that leaves the loop is the   *)
(* 5th call's and ends as a call_error result with its message.            *)
(***************************************************************************)
C9_RetryBound ==
    [][/\ pc = "call" =>
            /\ attempts = retry_count
            /\ attempts < max_retries
            /\ pc' = "sleep" =>
                  /\ IsRateLimit(exc')
                  /\ attempts' = attempts + 1
                  /\ retry_count' = attempts'
                  /\ attempts' < max_retries
            /\ (pc' = "finish" /\ IsRateLimit(exc')) => attempts + 1 = max_retries
            /\ attempts + 1 = max_retries => pc' = "finish"
            /\ (pc' = "finish" /\ exc' = NoExc) =>
                  attempts + 1 = Min(retry_count + 1, max_retries)
       /\ (pc = "finish" /\ IsRateLimit(exc)) =>
            /\ pc' = "append"
            /\ Status(result') = "call_error"
            /\ result'.error = exc.msg]_vars

C9_Witness == pc = "finish" /\ IsRateLimit(exc)

(***************************************************************************)
(* C10: a failure of the call that is no rate-limit signal leaves the loop *)
(* on the attempt where it occurs, without a sleep, and the chunk's result *)
(* is a call_error that retains the message.                               *)
(***************************************************************************)
C10_OtherFailureNotRetried ==
    [][/\ (pc = "call" /\ exc' # NoExc /\ ~IsRateLimit(exc')) => pc' = "finish"
       /\ (pc = "finish" /\ exc # NoExc /\ ~IsRateLimit(exc)) =>
            /\ pc' = "append"
            /\ Status(result') = "call_error"
            /\ result'.error = exc.msg]_vars

(***************************************************************************)
(* The wait the service announced, in tenths of a second.                  *)
(***************************************************************************)
HasRetryAfter(e) == e.retry_in >= 0
RetryAfterTenths(e) == 10 * e.retry_in + e.retry_frac

(***************************************************************************)
(* C11, as claimed: a rate-limit failure followed by a retry is followed   *)
(* by a sleep of exactly retry_after + 5 seconds when the service gave a   *)
(* retry_after, of exactly 45 seconds otherwise; the failure of the 5th    *)
(* call is followed by no sleep, 4 sleeps having been made.                *)
(***************************************************************************)
C11_Original ==
    [][/\ (pc = "call" /\ pc' = "sleep") =>
             10 * delay' = (IF HasRetryAfter(exc')
                            THEN RetryAfterTenths(exc') + 10 * RetryDelayBuffer
                            ELSE 10 * DefaultRetryDelay)
       /\ (pc = "call" /\ pc' = "finish" /\ IsRateLimit(exc')) =>
             sleeps = max_retries - 1
       /\ pc = "sleep" => (pc' = "call" /\ sleeps' = sleeps + 1)]_vars

(***************************************************************************)
(* C11, amended: the sleep is exactly the whole seconds of the announced   *)
(* wait (the digits before a decimal point) + 5 seconds when the failure's *)
(* text holds "retry in <digits>", exactly 45 seconds otherwise; the       *)
(* failure of the 5th call is followed by no sleep, 4 sleeps having been   *)
(* made.                                                                   *)
(***************************************************************************)
C11_BackoffWait ==
    [][/\ (pc = "call" /\ pc' = "sleep") =>
             delay' = (IF HasRetryAfter(exc')
                       THEN exc'.retry_in + RetryDelayBuffer
                       ELSE DefaultRetryDelay)
       /\ (pc = "call" /\ pc' = "finish" /\ IsRateLimit(exc')) =>
             sleeps = max_retries - 1
       /\ pc = "sleep" => (pc' = "call" /\ sleeps' = sleeps + 1)]_vars

C11_Witness ==
    /\ pc = "sleep"
    /\ sleeps = max_retries - 2
    /\ exc.retry_frac > 0
    /\ delay = RetryInSecs + RetryDelayBuffer

(***************************************************************************)
(* C12: a run that has entered its loop reaches DONE: the chunks' cycles   *)
(* complete, the summary is compiled and the run ends.                     *)
(***************************************************************************)
C12_Termination == (InCycle \/ pc = "compile") ~> (pc = "done")

(***************************************************************************)
(* Every run that has entered its loop ends, completed or aborted.         *)
(***************************************************************************)
RunEnds == (InCycle \/ pc = "compile") ~> (pc \in {"done", "aborted"})

(***************************************************************************)
(* C13: in memory mode, while chunk i's call is prepared and made, the     *)
(* timeline holds the results of chunks 0..i-1, the landmark collection is *)
(* the concatenation in chunk order of the records those results report,   *)
(* the prompt is the one built from that collection, and no record of the  *)
(* collection was first seen in chunk i or later.                          *)
(***************************************************************************)
C13_MemoryOrdering ==
    (mode = "memory" /\ AtCall) =>
        /\ Len(timeline) = i
        /\ spatial_memory = ReportedBy(timeline)
        /\ prompt =
              BuildPrompt("structured",
                          MemoryArg(TRUE, ReportedBy(timeline))).prompt
        /\ \A k \in 1..Len(spatial_memory) :
              \E j \in 0..(i - 1) :
                  spatial_memory[k].first_seen[1] = ChunkStart(j)

C13_Witness ==
    /\ mode = "memory"
    /\ pc = "call"
    /\ i = 2
    /\ Len(spatial_memory) = 2
    /\ spatial_memory[1].first_seen[1] = ChunkStart(0)
    /\ spatial_memory[2].first_seen[1] = ChunkStart(1)
    /\ Len(prompt.memory_summary.lines) = 2

(***************************************************************************)
(* C14: a memory prompt built from a landmark list of n records has        *)
(* min(n, 20) lines, line k being the object, type and location of the     *)
(* k-th of the last min(n, 20) records; and for a non-empty list whose     *)
(* last min(n, 20) records have these three keys the prompt that is built  *)
(* is the memory prompt.                                                   *)
(***************************************************************************)
C14_MemoryWindow ==
    pm_pc = "done" =>
        LET items == pm_memory.items
            n == Len(items)
            w == IF n < 20 THEN n ELSE 20
            lines == pm_out.prompt.memory_summary.lines
        IN  /\ (pm_mode = "structured" /\ n >= 1 /\ ~pm_out.raised) =>
                   pm_out.prompt.kind = "memory"
            /\ pm_out.prompt.kind = "memory" =>
                   /\ Len(lines) = w
                   /\ \A k \in 1..w :
                         /\ lines[k].object = items[n - w + k].object
                         /\ lines[k].type = items[n - w + k].type
                         /\ lines[k].location = items[n - w + k].location

C14_Witness ==
    /\ pm_pc = "done"
    /\ Len(pm_memory.items) > 20
    /\ pm_out.prompt.kind = "memory"
    /\ Len(pm_out.prompt.memory_summary.lines) = 20

(***************************************************************************)
(* C15: in memory mode, a chunk whose prompt is built while the landmark   *)
(* collection is empty gets the memory prompt with the placeholder as its  *)
(* memory summary.                                                         *)
(***************************************************************************)
C15_EmptyMemoryPlaceholder ==
    (mode = "memory" /\ AtCall /\ spatial_memory = <<>>) =>
        /\ prompt.kind = "memory"
        /\ prompt.memory_summary.placeholder

(***************************************************************************)
(* C16: the landmark collection is empty when a run starts; every step of  *)
(* the run leaves its previous content as a prefix of the new content;     *)
(* it changes only where a chunk's result is recorded in a memory run; and *)
(* the collection the run returns is the one it built.                     *)
(***************************************************************************)
C16_AppendOnly ==
    [][/\ (pc \notin RunPcs /\ pc' \in RunPcs) => spatial_memory' = <<>>
       /\ (pc \in RunPcs /\ pc' \in RunPcs) =>
             /\ IsPrefix(spatial_memory, spatial_memory')
             /\ spatial_memory' # spatial_memory =>
                   (pc = "append" /\ mode = "memory")
       /\ (pc = "compile" /\ pc' = "done" /\ mode = "memory") =>
             returned'.spatial_memory = spatial_memory]_vars

C16_Witness ==
    /\ pc = "compile"
    /\ Len(spatial_memory) = 3
    /\ spatial_memory[1].first_seen[1] = ChunkStart(0)
    /\ spatial_memory[3].first_seen[1] = ChunkStart(2)

(***************************************************************************)
(* C17: the cycle of a chunk starts only at the start of the run (chunk 0) *)
(* or when the cycle of the chunk before it has ended with its result in   *)
(* the timeline and its landmarks, stamped, at the end of the collection;  *)
(* during a cycle the chunk index, the timeline and the collection do not  *)
(* change; a call that was made is followed only by its retry or by the    *)
(* building of its own chunk's result; and whenever a call is in           *)
(* preparation or made for chunk i, all chunks before i are recorded.      *)
(***************************************************************************)
C17_StrictlySequential ==
    [][/\ pc' = "check" =>
             \/ /\ pc \notin RunPcs
                /\ i' = 0
                /\ timeline' = <<>>
             \/ /\ pc = "append"
                /\ i' = i + 1
                /\ Len(timeline') = i'
                /\ timeline'[i'].timestamp_range = result.timestamp_range
                /\ (mode = "memory" /\ result.spatial_memory.shape = "list") =>
                      spatial_memory' =
                          spatial_memory \o Stamp(result.spatial_memory.items,
                                                  result.timestamp_range)
       /\ (pc \in {"check", "call", "sleep", "finish"} /\ pc' \in RunPcs) =>
             /\ i' = i
             /\ timeline' = timeline
             /\ spatial_memory' = spatial_memory
       /\ (pc \in {"call", "sleep"} /\ pc' \in RunPcs) =>
             pc' \in {"call", "sleep", "finish"}
       /\ (pc = "finish" /\ pc' \in RunPcs) => pc' = "append"
       /\ AtCall => Len(timeline) = i]_vars

C17_Witness ==
    /\ pc = "check"
    /\ i = 2
    /\ mode = "memory"
    /\ Len(timeline) = 2
    /\ Len(spatial_memory) = 2

(***************************************************************************)
(* C18: throughout a run the timeline holds one result for each chunk      *)
(* processed so far, the k-th entry being the result of the k-th chunk     *)
(* (it carries that chunk's timestamp range); when the loop is over it     *)
(* holds one result per chunk; and a completed run returns a timeline as   *)
(* long as its chunk count.                                                *)
(***************************************************************************)
C18_TimelineAlignment ==
    /\ pc \in RunPcs =>
          /\ Len(timeline) = i
          /\ \A k \in 1..Len(timeline) :
                timeline[k].timestamp_range =
                    TimestampRange(k - 1, Len(chunks[k]))
    /\ pc = "compile" => Len(timeline) = Len(chunks)
    /\ returned # NoOutput =>
          /\ Len(returned.timeline) = returned.total_chunks
          /\ returned.summary.total_segments = returned.total_chunks

C18_Witness ==
    /\ pc = "compile"
    /\ Len(timeline) = 3
    /\ Status(timeline[2]) = "parse_error"
    /\ Status(timeline[3]) = "ok"

(***************************************************************************)
(* C19: the step that ends a chunk's cycle adds one inter-chunk delay of   *)
(* REQUEST_DELAY_SECONDS, whatever the chunk's result and wherever it came *)
(* from; no other step of the run adds any; so when chunk i is worked on,  *)
(* exactly i such delays have been made in the run.                        *)
(***************************************************************************)
C19_FixedCadence ==
    [][/\ (pc = "append" /\ pc' \in RunPcs) =>
             /\ pc' \in {"check", "compile"}
             /\ pause_total' = pause_total + REQUEST_DELAY_SECONDS
       /\ (pc \in RunPcs \ {"append"} /\ pc' \in RunPcs) =>
             pause_total' = pause_total
       /\ pc \in RunPcs => pause_total = i * REQUEST_DELAY_SECONDS
       /\ pc' \in RunPcs => pause_total' = i' * REQUEST_DELAY_SECONDS]_vars

C19_Witness ==
    /\ pc = "call"
    /\ i = 2
    /\ mode = "structured"
    /\ pause_total = 2 * REQUEST_DELAY_SECONDS
    /\ Status(timeline[1]) = "call_error"
    /\ JsonEntry(timeline[2]) = LeftByStructuredRun

\* The text '{"a": [1, 2,' and its repair '{"a": [1, 2]}', token by token.
TruncatedExample == <<"{", "k", "[", "v", ",", "v", ",">>
RepairedExample == <<"{", "k", "[", "v", ",", "v", "]", "}">>

\* What the repair appends to a text of which it has stripped the commas.
Appended(cleaned, fixed) ==
    SubSeq(fixed, Len(rstrip(cleaned, ",")) + 1, Len(fixed))

RepairShape ==
    sz_pc = "done" =>
        LET cleaned == sz_cleaned
            fixed == sz_out.fixed
            unmatched_braces == count(cleaned, "{") - count(cleaned, "}")
            unmatched_brackets == count(cleaned, "[") - count(cleaned, "]")
            added == Appended(cleaned, fixed)
        IN  /\ sz_out.repaired = ~json_loads(cleaned).ok
            /\ sz_out.repaired =>
                  /\ IsPrefix(rstrip(cleaned, ","), fixed)
                  /\ \A k \in 1..Len(added) : added[k] \in {"]", "}"}
                  /\ count(added, "}") = Max(unmatched_braces, 0)
                  /\ count(added, "]") = Max(unmatched_brackets, 0)
                  /\ sz_out.status = "ok" =>
                        (json_loads(fixed).ok /\ json_loads(fixed).isDict)
                  /\ sz_out.status = "parse_error" => ~json_loads(fixed).ok
            /\ cleaned = TruncatedExample =>
                  /\ sz_out.repaired
                  /\ fixed = RepairedExample
                  /\ sz_out.status = "ok"

Balanced(t) ==
    /\ count(t, "{") = count(t, "}")
    /\ count(t, "[") = count(t, "]")

NoSurplusClosers(t) ==
    /\ count(t, "{") >= count(t, "}")
    /\ count(t, "[") >= count(t, "]")

EndsInCommas(t) ==
    Len(t) >= 2 /\ t[Len(t)] = "," /\ t[Len(t) - 1] = ","

(***************************************************************************)
(* C21: for a cleaned text that fails the strict decoding and ends in two  *)
(* or more consecutive commas, the repair removes exactly one comma before *)
(* it appends the closing delimiters, and the result is a parse_error.     *)
(***************************************************************************)
C21_SingleCommaStripped ==
    (sz_pc = "done" /\ sz_out.repaired /\ EndsInCommas(sz_cleaned)) =>
        /\ IsPrefix(SubSeq(sz_cleaned, 1, Len(sz_cleaned) - 1), sz_out.fixed)
        /\ sz_out.status = "parse_error"

\* The string s is the text r of the service, character for character.
TextIs(s, r) == ~r.padded /\ s = r.text

\* The call returned a text that neither decoding accepts.
BothDecodesFail ==
    /\ pc = "finish"
    /\ exc = NoExc
    /\ AnalyzeMode(mode) = "structured"
    /\ ~Decode(raw_text).decodes

(***************************************************************************)
(* C22 as stated: when both decodings of a response fail, the chunk's      *)
(* cycle goes on to the recording of a parse_error result, with no further *)
(* call; the result holds the response text unchanged and the chunk's      *)
(* timestamp range; and the cache holds no file for the chunk.             *)
(***************************************************************************)
C22_Original ==
    [][BothDecodesFail =>
          (/\ pc' = "append"
           /\ i' = i
           /\ Status(result') = "parse_error"
           /\ TextIs(result'.raw_response, response)
           /\ result'.timestamp_range = TimestampRange(i, Len(chunks[i + 1]))
           /\ cache'[CurPath] = AbsentEntry)]_vars

(***************************************************************************)
(* C22, amended: as above, but the result holds the response text without  *)
(* the white space around it (line 144 strips it), code fences and all.    *)
(***************************************************************************)
C22_ParseErrorKeepsRaw ==
    [][BothDecodesFail =>
          (/\ pc' = "append"
           /\ i' = i
           /\ Status(result') = "parse_error"
           /\ result'.raw_response = strip(response)
           /\ result'.timestamp_range = TimestampRange(i, Len(chunks[i + 1]))
           /\ cache'[CurPath] = AbsentEntry)]_vars

C22_Witness ==
    /\ pc = "append"
    /\ i = 1
    /\ response = [text |-> "garbage", padded |-> TRUE]
    /\ Status(result) = "parse_error"
    /\ result.raw_response = "garbage"
    /\ result.timestamp_range = TimestampRange(1, Len(chunks[2]))
    /\ cache[CurPath] = AbsentEntry

\* A naive-mode call returned a text.
NaiveAnswered == pc = "finish" /\ exc = NoExc /\ mode = "naive"

(***************************************************************************)
(* C24 as stated: in naive mode every response text gives a result with    *)
(* status ok that holds the text verbatim, activity "unknown" and          *)
(* confidence 0.0, and that is written to the cache under the naive key;   *)
(* no naive-mode chunk ends as parse_error.                                *)
(***************************************************************************)
C24_Original ==
    [][/\ NaiveAnswered =>
             (/\ pc' = "append"
              /\ Status(result') = "ok"
              /\ TextIs(result'.raw_response, response)
              /\ result'.activity = "unknown"
              /\ result'.confidence = "0.0"
              /\ cache'[get_cache_path(i, "naive")] = JsonEntry(result'))
       /\ (pc' = "append" /\ mode' = "naive") =>
             (Status(result') # "parse_error")]_vars

(***************************************************************************)
(* C24, amended: as above, but the result holds the response text without  *)
(* the white space around it (line 144 strips it).                         *)
(***************************************************************************)
C24_NaiveNeverParses ==
    [][/\ NaiveAnswered =>
             (/\ pc' = "append"
              /\ Status(result') = "ok"
              /\ result'.raw_response = strip(response)
              /\ result'.activity = "unknown"
              /\ result'.confidence = "0.0"
              /\ cache'[get_cache_path(i, "naive")] = JsonEntry(result'))
       /\ (pc' = "append" /\ mode' = "naive") =>
             (Status(result') # "parse_error")]_vars

C24_Witness ==
    /\ pc = "append"
    /\ mode = "naive"
    /\ response = [text |-> "garbage", padded |-> TRUE]
    /\ Status(result) = "ok"
    /\ result.raw_response = "garbage"
    /\ result.confidence = "0.0"
    /\ cache[get_cache_path(i, "naive")] = JsonEntry(result)

\* The chunks of the whole frames directory, and how many a capped run takes.
AllChunks == chunk_frames(load_frames(frames), FRAMES_PER_CHUNK)
Capped == pc \in RunPcs /\ max_chunks >= 1
Taken == Min(max_chunks, Len(AllChunks))

(***************************************************************************)
(* C30: a run with a cap N >= 1 over C chunks works on exactly the chunks  *)
(* 0 .. min(N, C) - 1, in index order: its chunk list is the first         *)
(* min(N, C) chunks, every cycle is for an index below that, the loop ends *)
(* with min(N, C) results recorded, no cache file of an index >= N is      *)
(* touched, and the loop is left only by the step that records a chunk's   *)
(* result, never from a call or a backoff sleep.                           *)
(***************************************************************************)
C30_CapBoundsWork ==
    [][/\ Capped =>
             (/\ chunks = SubSeq(AllChunks, 1, Taken)
              /\ InCycle => i < Taken
              /\ pc = "compile" => (i = Taken /\ Len(timeline) = Taken)
              /\ \A p \in CachePaths :
                    (p[1] >= max_chunks) => (cache'[p] = cache[p]))
       /\ (Capped /\ pc = "append" /\ pc' \in RunPcs) =>
             (/\ i' = i + 1
              /\ pc' = (IF i' < Taken THEN "check" ELSE "compile"))
       /\ (Capped /\ pc' = "compile") => (pc = "append")
       /\ (Capped /\ pc \in {"call", "sleep"}) =>
             (pc' \in {"call", "sleep", "finish"})]_vars

C30_Witness ==
    /\ pc = "compile"
    /\ max_chunks = 2
    /\ Len(AllChunks) = 3
    /\ Len(timeline) = 2
    /\ Status(timeline[2]) = "ok"
    /\ cache[get_cache_path(1, "naive")] = JsonEntry(timeline[2])
    /\ \A m \in {"naive", "structured"} :
          cache[get_cache_path(2, m)] = AbsentEntry

\* An opening fence with or without the language tag, a closing fence, each
\* next to the body or one white-space character away from it.
Gaps == {<<>>, <<NL>>, <<" ">>}
FenceOpenings == {o \o g : o \in {<<Fence>>, <<Fence, Tag>>}, g \in Gaps}
FenceClosings == {g \o <<Fence>> : g \in Gaps}
DecodableObject(t) == json_loads(t).ok /\ json_loads(t).isDict

(***************************************************************************)
(* C23: in structured mode, a response that is a decodable object text J   *)
(* between an opening code fence (with or without the language tag) and a  *)
(* closing code fence gives the same result as the response J alone.       *)
(***************************************************************************)
C23_FenceTransparent ==
    (/\ rs_pc = "done"
     /\ rs_open \in FenceOpenings
     /\ rs_close \in FenceClosings
     /\ DecodableObject(rs_body)) =>
        rs_out = AnalyzeText(rs_body)

\* The productivity labels of a timeline, in order.
Labels(tl) == [k \in 1..Len(tl) |-> tl[k].productivity]

\* The runs <<first, last>> (positions from 1) of two or more IDLE entries
\* that no IDLE entry precedes or follows.
MaximalIdleRuns(tl) ==
    {r \in (1..Len(tl)) \X (1..Len(tl)) :
        /\ r[1] < r[2]
        /\ \A k \in r[1]..r[2] : tl[k].productivity = "IDLE"
        /\ (r[1] > 1) => (tl[r[1] - 1].productivity # "IDLE")
        /\ (r[2] < Len(tl)) => (tl[r[2] + 1].productivity # "IDLE")}

IdleExample ==
    <<"PRODUCTIVE", "IDLE", "IDLE", "IDLE", "PRODUCTIVE", "IDLE", "TRANSITIONAL">>

(***************************************************************************)
(* C25: the idle stretches compile_summary reports are exactly the maximal *)
(* runs of two or more consecutive IDLE entries, one record per run, in    *)
(* the order of their starts, each with the index of its first entry, of   *)
(* its last entry and its length; a run that reaches the last entry is     *)
(* among them and a single IDLE entry is not.  The labels P I I I P I T    *)
(* give one stretch: start 1, end 3, length 3.                             *)
(***************************************************************************)
C25_IdleStretches ==
    cs_pc = "done" =>
        LET st == cs_out.idle_stretches
        IN  /\ {<<st[j].start_chunk + 1, st[j].end_chunk + 1>> :
                    j \in 1..Len(st)} = MaximalIdleRuns(cs_timeline)
            /\ Len(st) = Cardinality(MaximalIdleRuns(cs_timeline))
            /\ \A j \in 1..Len(st) :
                  /\ st[j].duration_chunks =
                         st[j].end_chunk - st[j].start_chunk + 1
                  /\ st[j].duration_chunks >= 2
                  /\ (j < Len(st)) => (st[j].end_chunk < st[j + 1].start_chunk)
            /\ (Labels(cs_timeline) = IdleExample) =>
                  (/\ Len(st) = 1
                   /\ st[1].start_chunk = 1
                   /\ st[1].end_chunk = 3
                   /\ st[1].duration_chunks = 3)

C25_Witness ==
    /\ cs_pc = "done"
    /\ Labels(cs_timeline) = IdleExample
    /\ Len(cs_out.idle_stretches) = 1
    /\ cs_out.idle_stretches[1].duration_chunks = 3

(***************************************************************************)
(* C26: every idle stretch compile_summary reports carries, besides its    *)
(* start, end and length, the timestamp of its start: the timestamp range  *)
(* of the entry at its start index, wherever in the timeline it lies.      *)
(***************************************************************************)
C26_StretchHasTimestamp ==
    cs_pc = "done" =>
        \A j \in 1..Len(cs_out.idle_stretches) :
            LET s == cs_out.idle_stretches[j]
            IN  /\ s.timestamp # NoStamp
                /\ s.timestamp = cs_timeline[s.start_chunk + 1].timestamp_range

(***************************************************************************)
(* C27: for the empty timeline compile_summary returns 0 for each of the   *)
(* three percentages, 0 segments, an empty activity distribution and an    *)
(* empty list of idle stretches.                                           *)
(***************************************************************************)
C27_EmptyTimeline ==
    (cs_pc = "done" /\ cs_timeline = <<>>) =>
        /\ cs_out.productivity.productive_pct = 0
        /\ cs_out.productivity.transitional_pct = 0
        /\ cs_out.productivity.idle_pct = 0
        /\ cs_out.total_segments = 0
        /\ DOMAIN cs_out.activity_distribution = {}
        /\ cs_out.idle_stretches = <<>>

C27_Witness ==
    /\ cs_pc = "done"
    /\ cs_timeline = <<>>
    /\ cs_out.total_segments = 0
    /\ cs_out.productivity.idle_pct = 0

\* The entries of a timeline with a productivity label.
CountOf(tl, l) == Cardinality({k \in 1..Len(tl) : tl[k].productivity = l})
ThreeLabels == {"PRODUCTIVE", "TRANSITIONAL", "IDLE"}
LabelSum(tl) ==
    CountOf(tl, "PRODUCTIVE") + CountOf(tl, "TRANSITIONAL") + CountOf(tl, "IDLE")
Reported(out, l) ==
    CASE l = "PRODUCTIVE" -> out.productivity.productive_pct
      [] l = "TRANSITIONAL" -> out.productivity.transitional_pct
      [] l = "IDLE" -> out.productivity.idle_pct

(***************************************************************************)
(* C28 as stated: for a timeline of n > 0 entries each reported percentage *)
(* is the count of its label times 100 over n, n counting every entry; the *)
(* three counts sum to at most n, and to n exactly when every entry has    *)
(* one of the three labels.  (Percentages are in tenths: times 1000.)      *)
(***************************************************************************)
C28_Original ==
    (cs_pc = "done" /\ Len(cs_timeline) > 0) =>
        LET n == Len(cs_timeline)
        IN  /\ \A l \in ThreeLabels :
                  Reported(cs_out, l) * n = CountOf(cs_timeline, l) * 1000
            /\ LabelSum(cs_timeline) <= n
            /\ (LabelSum(cs_timeline) = n) <=>
                  (\A k \in 1..n : cs_timeline[k].productivity \in ThreeLabels)

(***************************************************************************)
(* C28, amended: each reported percentage is that quotient rounded to one  *)
(* decimal place (the tenth nearest to it); the rest as stated.            *)
(***************************************************************************)
C28_Percentages ==
    (cs_pc = "done" /\ Len(cs_timeline) > 0) =>
        LET n == Len(cs_timeline)
            off(l) == Reported(cs_out, l) * n - CountOf(cs_timeline, l) * 1000
        IN  /\ \A l \in ThreeLabels : 2 * off(l) <= n /\ -2 * off(l) <= n
            /\ LabelSum(cs_timeline) <= n
            /\ (LabelSum(cs_timeline) = n) <=>
                  (\A k \in 1..n : cs_timeline[k].productivity \in ThreeLabels)

C28_Witness ==
    /\ cs_pc = "done"
    /\ Len(cs_timeline) = 3
    /\ Labels(cs_timeline) = <<"PRODUCTIVE", "unknown", "IDLE">>
    /\ Status(cs_timeline[2]) = "call_error"
    /\ cs_out.productivity.productive_pct = 333
    /\ cs_out.productivity.transitional_pct = 0

RECURSIVE SumOf(_)
SumOf(f) ==
    IF DOMAIN f = {} THEN 0
    ELSE LET a == CHOOSE x \in DOMAIN f : TRUE
         IN  f[a] + SumOf([x \in DOMAIN f \ {a} |-> f[x]])

(***************************************************************************)
(* C29: the activity distribution has one key for each activity label in   *)
(* the timeline, an entry without activity counting as "unknown" and a     *)
(* failed chunk under the label its result carries; each key maps to the   *)
(* number of entries with that label, which is never 0; and the counts sum *)
(* to the length of the timeline, which is total_segments.                 *)
(***************************************************************************)
C29_ActivityDistribution ==
    cs_pc = "done" =>
        LET dist == cs_out.activity_distribution
            tl == cs_timeline
            label(k) == IF tl[k].activity = NoKey THEN "unknown"
                        ELSE tl[k].activity
        IN  /\ DOMAIN dist = {label(k) : k \in 1..Len(tl)}
            /\ \A a \in DOMAIN dist :
                  /\ dist[a] = Cardinality({k \in 1..Len(tl) : label(k) = a})
                  /\ dist[a] > 0
            /\ \A k \in 1..Len(tl) :
                  (Status(tl[k]) = "call_error") => (label(k) = "error")
            /\ SumOf(dist) = Len(tl)
            /\ cs_out.total_segments = Len(tl)

C29_Witness ==
    /\ cs_pc = "done"
    /\ Len(cs_timeline) = 4
    /\ DOMAIN cs_out.activity_distribution = {"unknown", "error", "framing"}
    /\ cs_out.activity_distribution["unknown"] = 2
    /\ cs_out.activity_distribution["error"] = 1

\* The file of the current chunk holds a result with status ok.
OkEntryAtCheck ==
    /\ pc = "check"
    /\ cache[CurPath].kind = "json"
    /\ Status(cache[CurPath].val) = "ok"

(***************************************************************************)
(* C31: when the cache check finds a file with status ok for the chunk, it *)
(* returns that file's content as the chunk's result in one step: no       *)
(* inference call, no backoff sleep, and the cache is left as it was.      *)
(***************************************************************************)
C31_HitSkipsCall ==
    [][OkEntryAtCheck =>
          (/\ pc' = "append"
           /\ result' = cache[CurPath].val
           /\ cache' = cache
           /\ attempts' = 0
           /\ sleeps' = 0
           /\ response' = NoResponse
           /\ i' = i)]_vars

C31_Witness ==
    /\ pc = "append"
    /\ i = 1
    /\ runs = 2
    /\ Status(cached.val) = "ok"
    /\ cached.kind = "json"
    /\ result = cached.val
    /\ cache[CurPath] = cached
    /\ response = NoResponse

(***************************************************************************)
(* C32: at the end of the loop of a run of any mode, every timeline entry  *)
(* with status ok equals the content of the cache file of its chunk.       *)
(***************************************************************************)
C32_NeverMutated ==
    pc = "compile" =>
        \A k \in 1..Len(timeline) :
            (Status(timeline[k]) = "ok") =>
                (cache[get_cache_path(k - 1, AnalyzeMode(mode))] =
                    JsonEntry(timeline[k]))

\* A memory-mode run that repeats a completed run whose results were all ok
\* has left its loop.
ReplayDone ==
    /\ Repeat
    /\ AllOk(returned.timeline)
    /\ mode = "memory"
    /\ pc = "compile"

(***************************************************************************)
(* C33: every run starts with an empty landmark collection; a memory-mode  *)
(* run that repeats a completed memory-mode run whose results were all ok  *)
(* makes no call, and ends its loop with the landmark collection of that   *)
(* run: the same records in the same order, each with the timestamp range  *)
(* of the chunk that reported it as first_seen.                            *)
(***************************************************************************)
C33_MemoryReplayed ==
    [][/\ (pc \notin RunPcs /\ pc' \in RunPcs) => (spatial_memory' = <<>>)
       /\ (Repeat /\ AllOk(returned.timeline) /\ mode = "memory") =>
             (pc \notin {"call", "sleep", "finish"})
       /\ ReplayDone =>
             (/\ spatial_memory = returned.spatial_memory
              /\ spatial_memory = ReportedBy(timeline)
              /\ \A k \in 1..Len(timeline) :
                    \A j \in 1..Len(timeline[k].spatial_memory.items) :
                        timeline[k].spatial_memory.items[j].first_seen =
                            TimestampRange(k - 1, Len(chunks[k])))]_vars

C33_Witness ==
    /\ ReplayDone
    /\ runs = 2
    /\ Len(spatial_memory) = 2
    /\ spatial_memory = returned.spatial_memory
    /\ spatial_memory[1].first_seen = TimestampRange(0, FRAMES_PER_CHUNK)
    /\ spatial_memory[2].first_seen = TimestampRange(1, 1)

\* The openers of a text that no closer after them closes, outermost first.
RECURSIVE OpenStack(_, _, _)
OpenStack(t, p, st) ==
    IF p > Len(t) THEN st
    ELSE IF t[p] \in {"{", "["} THEN OpenStack(t, p + 1, Append(st, t[p]))
    ELSE IF t[p] \in {"}", "]"} /\ Len(st) > 0
    THEN OpenStack(t, p + 1, SubSeq(st, 1, Len(st) - 1))
    ELSE OpenStack(t, p + 1, st)

Unmatched(t) == OpenStack(t, 1, <<>>)

\* No unmatched object opener lies inside an unmatched array opener.
ArraysInnermost(st) ==
    \A a, b \in 1..Len(st) : (a < b) => ~(st[a] = "[" /\ st[b] = "{")

NestedExample == <<"[", "{", "k", "v">>

(***************************************************************************)
(* C34: the repaired text is the cleaned text, trailing white space and    *)
(* commas removed, then all array closers, then all object closers; it     *)
(* decodes only if every unmatched array opener of the cleaned text lies   *)
(* inside every unmatched object opener; and the text [{"a": 1 ends as     *)
(* parse_error.                                                            *)
(***************************************************************************)
C34_ArrayClosersFirst ==
    (sz_pc = "done" /\ sz_out.repaired) =>
        /\ sz_out.fixed =
              rstrip(rstrip_space(sz_cleaned), ",")
                 \o Times("]", count(sz_cleaned, "[") - count(sz_cleaned, "]"))
                 \o Times("}", count(sz_cleaned, "{") - count(sz_cleaned, "}"))
        /\ (sz_out.status # "parse_error") =>
              ArraysInnermost(Unmatched(sz_cleaned))
        /\ (sz_cleaned = NestedExample) => (sz_out.status = "parse_error")

C34_Witness ==
    /\ sz_pc = "done"
    /\ sz_cleaned = NestedExample
    /\ sz_out.repaired
    /\ sz_out.fixed = <<"[", "{", "k", "v", "]", "}">>
    /\ sz_out.status = "parse_error"

\* The call of the current chunk returned text and analyze_chunk is about to
\* build the result from it.
TextReturned == pc = "finish" /\ exc = NoExc

(***************************************************************************)
(* C35: in structured or memory mode, when the call returns text that      *)
(* decodes to an object, analyze_chunk leaves the result in the cache file *)
(* of the chunk, and a later check of that file is a hit, whatever keys    *)
(* the object has.                                                         *)
(***************************************************************************)
C35_DecodedIsPersisted ==
    [][(/\ TextReturned
        /\ AnalyzeMode(mode) # "naive"
        /\ Decode(raw_text).decodes
        /\ Decode(raw_text).isObject
        /\ pc' = "append") =>
            (/\ cache'[CurPath] = JsonEntry(result')
             /\ CacheHit(cache'[CurPath]))]_vars

(***************************************************************************)
(* C36: when the call returns text, the result of the chunk has status ok  *)
(* or parse_error, whatever the text decodes to.                           *)
(***************************************************************************)
C36_CallErrorOnlyFromCall ==
    [][(TextReturned /\ pc' = "append") =>
            (Status(result') \in {"ok", "parse_error"})]_vars

\* The range the claim gives chunk k (counted from 1) of the run's chunk list.
Tile(k) ==
    <<(k - 1) * 4 * FRAME_INTERVAL_SEC,
      (k - 1) * 4 * FRAME_INTERVAL_SEC + Len(chunks[k]) * FRAME_INTERVAL_SEC>>

C38_ZeroCapZeroChunks ==
    [][/\ (pc \in RunPcs /\ max_chunks = 0) =>
             (/\ chunks = <<>>
              /\ timeline = <<>>
              /\ pc = "compile")
       /\ (pc = "compile" /\ max_chunks = 0 /\ pc' = "done") =>
             (/\ returned'.total_chunks = 0
              /\ returned'.timeline = <<>>)]_vars

(***************************************************************************)
(* C39: with two runs of one mode at once over one cache, a cache file     *)
(* that holds an ok result is never removed, and when both runs have gone  *)
(* through all their chunks, every key for which a run obtained an ok      *)
(* result holds an ok file.                                                *)
(***************************************************************************)
C39_NoLockNeeded ==
    [][/\ \A k \in CcKeys :
             (cc_cache[k] = "ok") => (cc_cache'[k] # "absent")
       /\ (\A r \in CcRuns : cc_pc'[r] = "done") =>
             (\A k \in cc_ok'[1] \cup cc_ok'[2] : cc_cache'[k] = "ok")]_vars

====
